---- MODULE Spec2Model ----
(***************************************************************************)
(* TradeX: position lifecycle, risk gate and order placement.              *)
(*                                                                         *)
(*   SpecBacktest  BacktestEngine.run_backtest / execute_trade /           *)
(*                 check_stop_loss_take_profit     (src/backtest_engine.py)*)
(*                                                                         *)
(* Money, quantities and prices are Python floats in the source; they are  *)
(* modelled as exact rationals <<numerator, denominator>> in lowest terms. *)
(* A Python dict is modelled as a sequence of entries in insertion order,  *)
(* each entry carrying its key.                                            *)
(***************************************************************************)
EXTENDS Integers, Sequences, FiniteSets, TLC

\* ------------------------------------------------------------------------
\* Exact rational arithmetic standing in for Python float arithmetic
\* ------------------------------------------------------------------------
Abs(x) == IF x < 0 THEN -x ELSE x

RECURSIVE GCD(_, _)
GCD(a, b) == IF b = 0 THEN a ELSE GCD(b, a % b)

Norm(n, d) ==
    LET g == GCD(Abs(n), Abs(d))
        s == IF d < 0 THEN -1 ELSE 1
    IN  IF n = 0 THEN <<0, 1>> ELSE <<(s * n) \div g, (s * d) \div g>>

R(n) == <<n, 1>>
\* sums and comparisons go through the least common denominator, products
\* cancel crosswise first, so intermediate values stay small
RAdd(a, b) ==
    LET g == GCD(a[2], b[2])
    IN  Norm(a[1] * (b[2] \div g) + b[1] * (a[2] \div g), (a[2] \div g) * b[2])
RNeg(a) == <<-a[1], a[2]>>
RSub(a, b) == RAdd(a, RNeg(b))
RMul(a, b) ==
    LET x == Norm(a[1], b[2])
        y == Norm(b[1], a[2])
    IN  Norm(x[1] * y[1], x[2] * y[2])
RDiv(a, b) == RMul(a, Norm(b[2], b[1]))
RLe(a, b) ==
    LET g == GCD(a[2], b[2])
    IN  a[1] * (b[2] \div g) <= b[1] * (a[2] \div g)
RLt(a, b) == ~RLe(b, a)
RMin(a, b) == IF RLe(a, b) THEN a ELSE b
Zero == <<0, 1>>

\* ------------------------------------------------------------------------
\* Python dict as an insertion-ordered sequence of keyed entries
\* ------------------------------------------------------------------------
Keys(d) == {d[j].symbol : j \in 1..Len(d)}
HasKey(d, k) == k \in Keys(d)
KeyIndex(d, k) == CHOOSE j \in 1..Len(d) : d[j].symbol = k
Get(d, k) == d[KeyIndex(d, k)]
Put(d, k, e) == IF HasKey(d, k) THEN [d EXCEPT ![KeyIndex(d, k)] = e]
                ELSE Append(d, e)
Del(d, k) == SelectSeq(d, LAMBDA e : e.symbol # k)

\* ------------------------------------------------------------------------
\* Configuration (src/config.py)
\* ------------------------------------------------------------------------
STOP_LOSS_PERCENTAGE == <<2, 1>>
TAKE_PROFIT_PERCENTAGE == <<4, 1>>
MAX_POSITION_SIZE == <<1, 10>>
MAX_DAILY_TRADES == 15
MAX_DAILY_LOSS == <<3, 1>>

\* The pairs the engines iterate over, in their fixed order
SUPPORTED_PAIRS == <<"BTC-USD", "ETH-USD">>
Symbols == {SUPPORTED_PAIRS[j] : j \in 1..Len(SUPPORTED_PAIRS)}

\* ------------------------------------------------------------------------
\* Bounds and input sets
\* ------------------------------------------------------------------------
MaxTicks == 3
MaxTrades == 3
MaxDays == 1
MaxDailyCount == 16
MaxHistory == 3
MaxClock == 25
MaxErrors == 5
MaxLiveCount == 4
ClockSteps == {25}
TickerOutcomes == {"error", "10", "50"}
ClientOutcomes == {"filled", "none", "raise"}
OrderIds == {1, 2}
Sides == {"BUY", "SELL"}
EntryPrices == {R(100)}
Quantities == {R(1)}
Pnls == {R(-3), R(3)}
CheckPrices == {R(95), R(96), R(98), R(100), R(102), R(104), R(105)}
SignalStrengths == {50, 60, 90}
PortfolioValues == {R(80), R(100), R(120)}
Decisions == {"HOLD", "BUY", "SELL"}
Confidences == {50, 90}
Prices == {R(10), R(50)}
InitialBalances == {Zero, R(1000000)}
TradeAmounts == {R(100000), R(50000)}

\* analysis records as produced by simulate_market_conditions:
\* bullish/bearish signal counts and the ML probability in percent
\* (ml = -1: no ML prediction); "none" stands for a failed analysis
Analyses ==
    { [ok |-> FALSE, bullish_signals |-> 0, bearish_signals |-> 0, ml |-> -1],
      [ok |-> TRUE,  bullish_signals |-> 6, bearish_signals |-> 0, ml |-> 70],
      [ok |-> TRUE,  bullish_signals |-> 0, bearish_signals |-> 6, ml |-> -1],
      [ok |-> TRUE,  bullish_signals |-> 7, bearish_signals |-> 1, ml |-> 50],
      [ok |-> TRUE,  bullish_signals |-> 3, bearish_signals |-> 1, ml |-> 90] }

VARIABLES
    initial_balance,   \* BacktestEngine.initial_balance
    current_balance,   \* BacktestEngine.current_balance
    positions,         \* BacktestEngine.positions
    trades,            \* BacktestEngine.trades
    bt_pc,             \* where run_backtest is: "loop", "liquidate", "done"
    bt_i,              \* index of the timestamp being processed
    bt_k,              \* index in SUPPORTED_PAIRS of the symbol being processed
    bt_all_data,       \* symbols for which historical data was fetched
    bt_price,          \* latest close per symbol
    bt_amount,         \* Config.TRADE_AMOUNT_USD
    bt_tick,           \* what the last processed loop body did
    \* RiskModule (src/risk_module.py)
    rk_daily_trades,   \* RiskModule.daily_trades
    rk_daily_pnl,      \* RiskModule.daily_pnl
    rk_last_reset_date,\* RiskModule.last_reset_date (day number)
    rk_active_positions,\* RiskModule.active_positions, keyed by order_id
    rk_today,          \* datetime.now().date() (day number)
    rk_call,           \* the last RiskModule call and what it returned
    \* RiskManager (src/risk_manager.py)
    rm_max_drawdown,   \* RiskManager.max_drawdown
    rm_portfolio_history, \* RiskManager.portfolio_history
    \* TradingSystem.run_trading_cycle (src/main.py)
    ts_cycle,          \* outcome of the last trading cycle
    \* TradingEngine (src/trading_engine.py)
    te_paper_trading,  \* TradingEngine.paper_trading
    te_active_positions, \* TradingEngine.active_positions, keyed by symbol
                       \* (entry_price, entry_time; position_size is never read)
    te_daily_trades,   \* TradingEngine.daily_trades
    te_account_balances, \* TradingEngine.account_balances ('available')
    te_emergency_stop, \* TradingEngine.emergency_stop
    te_consecutive_errors, \* TradingEngine.consecutive_errors
    te_now,            \* datetime.now(), in hours
    te_pc,             \* where execute_trading_cycle is: "idle", "manage", "analyze"
    te_k,              \* index in SUPPORTED_PAIRS of the symbol being analyzed
    te_last,           \* what the last TradingEngine step did
    \* LogicEngine (src/logic_engine.py)
    le_pc,             \* "start": inputs drawn, "done": decision made
    le_mode,           \* "direct": make_decision called with votes;
                       \* "cycle": the analyzers feed make_decision
    le_adapt,          \* Config.REGIME_ADAPTATION
    le_in,             \* the inputs of the call
    le_out,            \* the decision and how it was reached
    \* RiskModule position sizing (src/risk_module.py)
    sz_pc,             \* "start": inputs drawn, "done": size computed
    sz_in,             \* the arguments of the call and the caller's balance
    sz_out,            \* what the call computed
    \* two backtest runs over data that agree on a prefix
    \* (src/backtest_engine.py)
    rp_all_data,       \* all_data[symbol] of each run, after the date filter
    rp_all_patterns,   \* all_patterns[symbol] of each run
    rp_pc,             \* "fetch", "loop", "done"
    rp_i,              \* the timestamp the loop has processed
    rp_out,            \* what each run decided at that timestamp
    \* two BacktestEngine objects run over the same data
    \* (src/backtest_engine.py)
    tw_args,           \* the constructor arguments and TRADE_AMOUNT_USD
    tw_data,           \* the fetched data: per timestamp and symbol
    tw_now,            \* datetime.now() when each engine was constructed
    tw_eng,            \* the two engines: "none", "constructed", "done"
    \* RiskManager over a long run of observations (src/risk_manager.py)
    dd_portfolio_history, \* RiskManager.portfolio_history
    dd_n,              \* observations made in this run
    dd_out,            \* peak and drawdown of the last two observations
    \* control flow of one run_backtest call (src/backtest_engine.py)
    fr_pc,             \* "fetch", "loop", "returned", "raised"
    fr_k,              \* index in SUPPORTED_PAIRS of the symbol being fetched
    fr_all_data,       \* symbols in all_data
    fr_i,              \* timestamps processed by the main loop
    fr_count,          \* how the processed timestamps ended
    fr_metrics,        \* calculate_performance_metrics was called
    fr_report,         \* generate_reports was called
    \* TradingEngine error handling and recovery (src/trading_engine.py)
    sv_emergency_stop, \* TradingEngine.emergency_stop
    sv_consecutive_errors, \* TradingEngine.consecutive_errors
    sv_recovery_attempts, \* TradingEngine.recovery_attempts
    sv_pc,             \* "loop": in the main loop of run, "exited"
    sv_last            \* what the last step of the main loop did

btVars == <<initial_balance, current_balance, positions, trades, bt_pc, bt_i,
            bt_k, bt_all_data, bt_price, bt_amount, bt_tick>>

rkVars == <<rk_daily_trades, rk_daily_pnl, rk_last_reset_date,
            rk_active_positions, rk_today, rk_call>>
rmVars == <<rm_max_drawdown, rm_portfolio_history>>
tsVars == <<ts_cycle>>

teVars == <<te_paper_trading, te_active_positions, te_daily_trades,
            te_account_balances, te_emergency_stop, te_consecutive_errors,
            te_now, te_pc, te_k, te_last>>

leVars == <<le_pc, le_mode, le_adapt, le_in, le_out>>

szVars == <<sz_pc, sz_in, sz_out>>

rpVars == <<rp_all_data, rp_all_patterns, rp_pc, rp_i, rp_out>>

twVars == <<tw_args, tw_data, tw_now, tw_eng>>

ddVars == <<dd_portfolio_history, dd_n, dd_out>>

frVars == <<fr_pc, fr_k, fr_all_data, fr_i, fr_count, fr_metrics, fr_report>>

svVars == <<sv_emergency_stop, sv_consecutive_errors, sv_recovery_attempts, sv_pc, sv_last>>

otherThanBt == <<rkVars, rmVars, tsVars, teVars, leVars, szVars, rpVars, twVars, ddVars, frVars, svVars>>
otherThanRisk == <<btVars, teVars, leVars, szVars, rpVars, twVars, ddVars, frVars, svVars>>
otherThanLive == <<btVars, rkVars, rmVars, tsVars, leVars, szVars, rpVars, twVars, ddVars, frVars, svVars>>
otherThanLogic == <<btVars, rkVars, rmVars, tsVars, teVars, szVars, rpVars, twVars, ddVars, frVars, svVars>>
otherThanSizing == <<btVars, rkVars, rmVars, tsVars, teVars, leVars, rpVars, twVars, ddVars, frVars, svVars>>
otherThanReplay == <<btVars, rkVars, rmVars, tsVars, teVars, leVars, szVars, twVars, ddVars, frVars, svVars>>
otherThanTwoRuns == <<btVars, rkVars, rmVars, tsVars, teVars, leVars, szVars, rpVars, ddVars, frVars, svVars>>
otherThanLongRun == <<btVars, rkVars, rmVars, tsVars, teVars, leVars, szVars, rpVars, twVars, frVars, svVars>>
otherThanFlow == <<btVars, rkVars, rmVars, tsVars, teVars, leVars, szVars, rpVars, twVars, ddVars, svVars>>
otherThanSupervision == <<btVars, rkVars, rmVars, tsVars, teVars, leVars, szVars, rpVars, twVars, ddVars, frVars>>
vars == <<btVars, rkVars, rmVars, tsVars, teVars, leVars, szVars, rpVars, twVars, ddVars, frVars, svVars>>

NoTick == [symbol |-> "", price |-> Zero, checked |-> FALSE,
           trigger |-> "none", signal |-> "none", ok |-> FALSE]

\* ------------------------------------------------------------------------
\* BacktestEngine.should_trade
\* ------------------------------------------------------------------------
SignalStrength(a) == Abs(a.bullish_signals - a.bearish_signals)

ShouldTrade(a) ==
    IF ~a.ok THEN "none"
    ELSE IF SignalStrength(a) < 5 THEN "none"
    ELSE IF a.ml # -1 /\ a.ml < 60 THEN "none"
    ELSE IF a.bullish_signals > a.bearish_signals THEN "buy"
    ELSE IF a.bearish_signals > a.bullish_signals THEN "sell"
    ELSE "none"

\* ------------------------------------------------------------------------
\* BacktestEngine.execute_trade
\* st is the ledger [bal, pos, trades]; the result adds ok (the return value)
\* ------------------------------------------------------------------------
TradeAmount(bal, amount_usd) == RMin(amount_usd, RMul(bal, MAX_POSITION_SIZE))

Refused(st) == [bal |-> st.bal, pos |-> st.pos, trades |-> st.trades, ok |-> FALSE]

TradeRecord(ts, symbol, side, price, trade_amount, bal, has_pnl, pnl_pct, pnl_usd) ==
    [timestamp |-> ts, symbol |-> symbol, side |-> side, price |-> price,
     amount_usd |-> trade_amount, balance_after |-> bal,
     trade_type |-> IF side = "buy" THEN "BUY" ELSE "SELL",
     has_pnl |-> has_pnl, pnl_pct |-> pnl_pct, pnl_usd |-> pnl_usd]

\* a buy that takes the requested amount out of cash, whatever cash there is
BuyUnchecked(st, symbol, price, ts, amount_usd) ==
    LET bal == RSub(st.bal, amount_usd)
    IN  [bal |-> bal,
         pos |-> Put(st.pos, symbol,
                     [symbol |-> symbol, amount |-> RDiv(amount_usd, price),
                      entry_price |-> price, entry_time |-> ts,
                      total_invested |-> amount_usd]),
         trades |-> Append(st.trades,
             TradeRecord(ts, symbol, "buy", price, amount_usd, bal,
                         FALSE, Zero, Zero)),
         ok |-> TRUE]

ExecuteBuy(st, symbol, price, ts, amount_usd) ==
    LET trade_amount == TradeAmount(st.bal, amount_usd)
        crypto_amount == RDiv(trade_amount, price)
        bal == RSub(st.bal, trade_amount)
        old == Get(st.pos, symbol)
        total_amount == RAdd(old.amount, crypto_amount)
        total_invested == RAdd(old.total_invested, trade_amount)
        entry ==
            IF ~HasKey(st.pos, symbol)
            THEN [symbol |-> symbol, amount |-> crypto_amount,
                  entry_price |-> price, entry_time |-> ts,
                  total_invested |-> trade_amount]
            ELSE [symbol |-> symbol, amount |-> total_amount,
                  entry_price |-> RDiv(total_invested, total_amount),
                  entry_time |-> ts, total_invested |-> total_invested]
    IN  IF RLt(st.bal, trade_amount) THEN Refused(st)
        ELSE IF price = Zero THEN Refused(st)
        ELSE IF HasKey(st.pos, symbol) /\ total_amount = Zero
        THEN [bal |-> bal, pos |-> st.pos, trades |-> st.trades, ok |-> FALSE]
        ELSE [bal |-> bal,
              pos |-> Put(st.pos, symbol, entry),
              trades |-> Append(st.trades,
                  TradeRecord(ts, symbol, "buy", price, trade_amount, bal,
                              FALSE, Zero, Zero)),
              ok |-> TRUE]

ExecuteSell(st, symbol, price, ts, amount_usd) ==
    LET trade_amount == TradeAmount(st.bal, amount_usd)
        position == Get(st.pos, symbol)
        sell_amount == RMin(position.amount, RDiv(trade_amount, price))
        proceeds == RMul(sell_amount, price)
        bal == RAdd(st.bal, proceeds)
        remaining_amount == RSub(position.amount, sell_amount)
        pos == IF RLe(remaining_amount, Zero) THEN Del(st.pos, symbol)
               ELSE Put(st.pos, symbol,
                        [position EXCEPT !.amount = remaining_amount])
        has_pnl == HasKey(pos, symbol)
        entry_price == position.entry_price
    IN  IF ~HasKey(st.pos, symbol) THEN Refused(st)
        ELSE IF RLe(position.amount, Zero) THEN Refused(st)
        ELSE IF price = Zero THEN Refused(st)
        ELSE [bal |-> bal,
              pos |-> pos,
              trades |-> Append(st.trades,
                  TradeRecord(ts, symbol, "sell", price, trade_amount, bal,
                      has_pnl,
                      IF has_pnl THEN RDiv(RSub(price, entry_price), entry_price)
                      ELSE Zero,
                      IF has_pnl THEN RMul(sell_amount, RSub(price, entry_price))
                      ELSE Zero)),
              ok |-> TRUE]

ExecuteTrade(st, symbol, side, price, ts, amount_usd) ==
    IF side = "buy" THEN ExecuteBuy(st, symbol, price, ts, amount_usd)
    ELSE IF side = "sell" THEN ExecuteSell(st, symbol, price, ts, amount_usd)
    ELSE Refused(st)

\* ------------------------------------------------------------------------
\* BacktestEngine.check_stop_loss_take_profit
\* ------------------------------------------------------------------------
PnlPct(entry_price, current_price) ==
    RDiv(RSub(current_price, entry_price), entry_price)

StopLossHit(entry_price, current_price) ==
    RLe(PnlPct(entry_price, current_price), RNeg(STOP_LOSS_PERCENTAGE))

TakeProfitHit(entry_price, current_price) ==
    RLe(TAKE_PROFIT_PERCENTAGE, PnlPct(entry_price, current_price))

Trigger(pos, symbol, current_price) ==
    IF ~HasKey(pos, symbol) THEN "none"
    ELSE IF StopLossHit(Get(pos, symbol).entry_price, current_price)
         THEN "stop_loss"
    ELSE IF TakeProfitHit(Get(pos, symbol).entry_price, current_price)
         THEN "take_profit"
    ELSE "none"

CheckStopLossTakeProfit(st, symbol, current_price, ts) ==
    IF Trigger(st.pos, symbol, current_price) = "none"
    THEN [bal |-> st.bal, pos |-> st.pos, trades |-> st.trades, ok |-> FALSE]
    ELSE ExecuteTrade(st, symbol, "sell", current_price, ts,
                      Get(st.pos, symbol).total_invested)

\* ------------------------------------------------------------------------
\* BacktestEngine.run_backtest
\* ------------------------------------------------------------------------
Ledger == [bal |-> current_balance, pos |-> positions, trades |-> trades]

BtAdvance ==
    IF bt_k < Len(SUPPORTED_PAIRS)
    THEN /\ bt_k' = bt_k + 1
         /\ bt_i' = bt_i
         /\ bt_pc' = "loop"
    ELSE /\ bt_k' = 1
         /\ bt_i' = bt_i + 1
         /\ bt_pc' = IF bt_i + 1 >= MaxTicks THEN "liquidate" ELSE "loop"

\* the symbol has no data: `continue`
BtSkipSymbol ==
    /\ bt_pc = "loop"
    /\ SUPPORTED_PAIRS[bt_k] \notin bt_all_data
    /\ BtAdvance
    /\ bt_tick' = NoTick
    /\ UNCHANGED <<initial_balance, current_balance, positions, trades,
                   bt_all_data, bt_price, bt_amount>>
    /\ UNCHANGED otherThanBt

\* a loop body that acts on the signal first and checks the exits after
TradeThenCheck(st, symbol, current_price, ts, direction, amount_usd) ==
    LET st1 == IF direction = "none" THEN st
               ELSE ExecuteTrade(st, symbol, direction, current_price, ts,
                                 amount_usd)
        st2 == CheckStopLossTakeProfit(st1, symbol, current_price, ts)
    IN  [bal |-> st2.bal, pos |-> st2.pos, trades |-> st2.trades,
         ok |-> direction # "none" /\ st1.ok]

\* the loop body from check_stop_loss_take_profit to execute_trade;
\* direction is what should_trade made of the analysis
CheckThenTrade(st, symbol, current_price, ts, direction, amount_usd) ==
    LET st1 == CheckStopLossTakeProfit(st, symbol, current_price, ts)
    IN  IF direction = "none" THEN st1
        ELSE ExecuteTrade(st1, symbol, direction, current_price, ts,
                          amount_usd)

\* one pass of the loop body for the symbol at (bt_i, bt_k)
BtProcessSymbol ==
    /\ bt_pc = "loop"
    /\ SUPPORTED_PAIRS[bt_k] \in bt_all_data
    /\ \E current_price \in Prices, analysis \in Analyses :
        LET symbol == SUPPORTED_PAIRS[bt_k]
            trig == Trigger(positions, symbol, current_price)
            direction == ShouldTrade(analysis)
            st2 == CheckThenTrade(Ledger, symbol, current_price, bt_i,
                                  direction, bt_amount)
        IN  /\ Len(st2.trades) <= MaxTrades
            /\ bt_price' = [bt_price EXCEPT ![symbol] = current_price]
            /\ current_balance' = st2.bal
            /\ positions' = st2.pos
            /\ trades' = st2.trades
            /\ bt_tick' = [symbol |-> symbol, price |-> current_price,
                           checked |-> TRUE, trigger |-> trig,
                           signal |-> direction,
                           ok |-> direction # "none" /\ st2.ok]
    /\ BtAdvance
    /\ UNCHANGED <<initial_balance, bt_all_data, bt_amount>>
    /\ UNCHANGED otherThanBt

\* "Close any remaining positions at end price": the whole loop
RECURSIVE LiquidateAll(_, _, _)
LiquidateAll(st, keys, ts) ==
    IF keys = <<>> THEN st
    ELSE LET symbol == Head(keys)
             next == IF symbol \in bt_all_data
                     THEN ExecuteTrade(st, symbol, "sell", bt_price[symbol], ts,
                                       Get(st.pos, symbol).total_invested)
                     ELSE st
         IN  LiquidateAll(next, Tail(keys), ts)

KeyList(d) == [j \in 1..Len(d) |-> d[j].symbol]

BtLiquidate ==
    /\ bt_pc = "liquidate"
    /\ LET st == LiquidateAll(Ledger, KeyList(positions), bt_i)
       IN  /\ current_balance' = st.bal
           /\ positions' = st.pos
           /\ trades' = st.trades
    /\ bt_pc' = "done"
    /\ bt_tick' = NoTick
    /\ UNCHANGED <<initial_balance, bt_i, bt_k, bt_all_data, bt_price, bt_amount>>
    /\ UNCHANGED otherThanBt

\* the risk objects as constructed, for runs that do not exercise them
NoCall == [op |-> "none", allowed |-> FALSE, reason |-> ""]
NoCycle == [ran |-> FALSE, decision |-> "HOLD", confidence |-> 0,
            trades_at_start |-> 0, action |-> "HOLD", reason |-> "",
            order |-> FALSE, logged |-> FALSE, result |-> FALSE]

NoStep == [op |-> "none", symbol |-> "", side |-> "", attempts |-> 0,
           fills |-> 0]

\* the live engine as constructed, for runs that do not exercise it
LiveIdle ==
    /\ te_paper_trading = FALSE
    /\ te_active_positions = <<>>
    /\ te_daily_trades = 0
    /\ te_account_balances = [USD |-> Zero, BTC |-> Zero, ETH |-> Zero]
    /\ te_emergency_stop = FALSE
    /\ te_consecutive_errors = 0
    /\ te_now = 0
    /\ te_pc = "idle"
    /\ te_k = 1
    /\ te_last = NoStep

\* no second run to compare with, for runs of a single engine
ReplayIdle ==
    /\ rp_all_data = <<>>
    /\ rp_all_patterns = <<>>
    /\ rp_pc = "done"
    /\ rp_i = 0
    /\ rp_out = <<>>
    /\ tw_args = <<>>
    /\ tw_data = <<>>
    /\ tw_now = <<>>
    /\ tw_eng = <<>>
    /\ dd_portfolio_history = <<>>
    /\ dd_n = 0
    /\ dd_out = <<>>
    /\ fr_pc = "returned"
    /\ fr_k = 1
    /\ fr_all_data = {}
    /\ fr_i = 0
    /\ fr_count = <<>>
    /\ fr_metrics = FALSE
    /\ fr_report = FALSE
    /\ sv_emergency_stop = FALSE
    /\ sv_consecutive_errors = 0
    /\ sv_recovery_attempts = 0
    /\ sv_pc = "exited"
    /\ sv_last = <<>>

\* the logic engine as constructed, for runs that do not exercise it;
\* no position size asked for
LogicIdle ==
    /\ le_pc = "done"
    /\ le_mode = "direct"
    /\ le_adapt = TRUE
    /\ le_in = <<>>
    /\ le_out = <<>>
    /\ sz_pc = "done"
    /\ sz_in = <<>>
    /\ sz_out = <<>>

RiskIdle ==
    /\ rk_daily_trades = 0
    /\ rk_daily_pnl = Zero
    /\ rk_last_reset_date = 0
    /\ rk_active_positions = <<>>
    /\ rk_today = 0
    /\ rk_call = NoCall
    /\ rm_max_drawdown = <<1, 5>>
    /\ rm_portfolio_history = <<>>
    /\ ts_cycle = NoCycle

InitBacktest ==
    /\ initial_balance \in InitialBalances
    /\ current_balance = initial_balance
    /\ positions = <<>>
    /\ trades = <<>>
    /\ bt_pc = "loop"
    /\ bt_i = 0
    /\ bt_k = 1
    /\ bt_all_data \in (SUBSET Symbols) \ {{}}
    /\ bt_price \in [Symbols -> {R(50)}]
    /\ bt_amount \in TradeAmounts
    /\ bt_tick = NoTick
    /\ RiskIdle
    /\ LiveIdle
    /\ LogicIdle
    /\ ReplayIdle

NextBacktest ==
    \/ BtSkipSymbol
    \/ BtProcessSymbol
    \/ BtLiquidate

SpecBacktest == InitBacktest /\ [][NextBacktest]_vars

\* ========================================================================
\* RiskModule (src/risk_module.py)
\* ========================================================================
RkHas(d, id) == \E j \in 1..Len(d) : d[j].order_id = id
RkIndex(d, id) == CHOOSE j \in 1..Len(d) : d[j].order_id = id
RkPut(d, id, e) == IF RkHas(d, id) THEN [d EXCEPT ![RkIndex(d, id)] = e]
                   ELSE Append(d, e)
RkDel(d, id) == SelectSeq(d, LAMBDA e : e.order_id # id)

\* RiskModule.reset_daily_counters: the counters it leaves behind
ResetOnSameDay == rk_today >= rk_last_reset_date
ResetNeeded == rk_today > rk_last_reset_date
DailyTradesAfterReset == IF ResetNeeded THEN 0 ELSE rk_daily_trades
DailyPnlAfterReset == IF ResetNeeded THEN Zero ELSE rk_daily_pnl
LastResetAfterReset == IF ResetNeeded THEN rk_today ELSE rk_last_reset_date

\* RiskModule.calculate_stop_loss / calculate_take_profit
CalculateStopLoss(entry_price, side) ==
    IF side = "BUY"
    THEN RMul(entry_price, RSub(R(1), RDiv(STOP_LOSS_PERCENTAGE, R(100))))
    ELSE RMul(entry_price, RAdd(R(1), RDiv(STOP_LOSS_PERCENTAGE, R(100))))

CalculateTakeProfit(entry_price, side) ==
    IF side = "BUY"
    THEN RMul(entry_price, RAdd(R(1), RDiv(TAKE_PROFIT_PERCENTAGE, R(100))))
    ELSE RMul(entry_price, RSub(R(1), RDiv(TAKE_PROFIT_PERCENTAGE, R(100))))

\* RiskModule.can_trade: signal_strength is given in percent
CanTradeResult(daily_trades, daily_pnl, signal_strength) ==
    IF daily_trades >= MAX_DAILY_TRADES
    THEN [allowed |-> FALSE, reason |-> "Daily trade limit reached"]
    ELSE IF RLe(daily_pnl, RNeg(MAX_DAILY_LOSS))
    THEN [allowed |-> FALSE, reason |-> "Daily loss limit reached"]
    ELSE IF signal_strength < 60
    THEN [allowed |-> FALSE, reason |-> "Signal strength too low"]
    ELSE [allowed |-> TRUE, reason |-> "Trading allowed"]

RkResetDailyCounters ==
    /\ rk_daily_trades' = DailyTradesAfterReset
    /\ rk_daily_pnl' = DailyPnlAfterReset
    /\ rk_last_reset_date' = LastResetAfterReset
    /\ rk_call' = [op |-> "reset_daily_counters", allowed |-> ResetNeeded,
                    reason |-> ""]
    /\ ts_cycle' = NoCycle
    /\ UNCHANGED <<rk_active_positions, rk_today, rmVars, otherThanRisk>>

RkCanTrade ==
    /\ \E signal_strength \in SignalStrengths :
        LET r == CanTradeResult(DailyTradesAfterReset, DailyPnlAfterReset,
                                signal_strength)
        IN  rk_call' = [op |-> "can_trade", allowed |-> r.allowed,
                        reason |-> r.reason]
    /\ rk_daily_trades' = DailyTradesAfterReset
    /\ rk_daily_pnl' = DailyPnlAfterReset
    /\ rk_last_reset_date' = LastResetAfterReset
    /\ ts_cycle' = NoCycle
    /\ UNCHANGED <<rk_active_positions, rk_today, rmVars, otherThanRisk>>

RkOpenPosition ==
    /\ rk_daily_trades < MaxDailyCount
    /\ \E order_id \in OrderIds, side \in Sides, entry_price \in EntryPrices,
          quantity \in Quantities :
        rk_active_positions' = RkPut(rk_active_positions, order_id,
            [order_id |-> order_id, side |-> side, entry_price |-> entry_price,
             quantity |-> quantity,
             stop_loss |-> CalculateStopLoss(entry_price, side),
             take_profit |-> CalculateTakeProfit(entry_price, side),
             status |-> "OPEN"])
    /\ rk_daily_trades' = rk_daily_trades + 1
    /\ rk_call' = [op |-> "open_position", allowed |-> TRUE, reason |-> ""]
    /\ ts_cycle' = NoCycle
    /\ UNCHANGED <<rk_daily_pnl, rk_last_reset_date, rk_today, rmVars, otherThanRisk>>

RkClosePosition ==
    /\ \E order_id \in OrderIds, pnl \in Pnls :
        IF RkHas(rk_active_positions, order_id)
        THEN /\ rk_daily_pnl' = RAdd(rk_daily_pnl, pnl)
             /\ rk_active_positions' = RkDel(rk_active_positions, order_id)
             /\ rk_call' = [op |-> "close_position", allowed |-> TRUE,
                            reason |-> ""]
        ELSE /\ UNCHANGED <<rk_daily_pnl, rk_active_positions>>
             /\ rk_call' = [op |-> "close_position", allowed |-> FALSE,
                            reason |-> "not found"]
    /\ ts_cycle' = NoCycle
    /\ UNCHANGED <<rk_daily_trades, rk_last_reset_date, rk_today, rmVars, otherThanRisk>>

\* the calendar date moves on
RkMidnight ==
    /\ rk_today < MaxDays
    /\ rk_today' = rk_today + 1
    /\ rk_call' = NoCall
    /\ ts_cycle' = NoCycle
    /\ UNCHANGED <<rk_daily_trades, rk_daily_pnl, rk_last_reset_date,
                   rk_active_positions, rmVars, otherThanRisk>>

\* ========================================================================
\* TradingSystem.run_trading_cycle (src/main.py)
\* RiskModule defines no check_risk_limits: the call at step 6 raises
\* AttributeError, which the cycle's except clause turns into `return False`
\* ========================================================================
TsRunTradingCycle ==
    /\ \E market_ok \in BOOLEAN, decision \in Decisions,
          confidence \in Confidences :
        ts_cycle' =
            IF ~market_ok
            THEN [NoCycle EXCEPT !.ran = TRUE,
                                 !.trades_at_start = rk_daily_trades]
            ELSE IF decision # "HOLD"
            THEN [ran |-> TRUE, decision |-> decision,
                  confidence |-> confidence,
                  trades_at_start |-> rk_daily_trades,
                  action |-> decision, reason |-> "",
                  order |-> FALSE, logged |-> FALSE, result |-> FALSE]
            ELSE [ran |-> TRUE, decision |-> decision,
                  confidence |-> confidence,
                  trades_at_start |-> rk_daily_trades,
                  action |-> "HOLD", reason |-> "",
                  order |-> FALSE, logged |-> TRUE, result |-> TRUE]
    /\ rk_call' = NoCall
    /\ UNCHANGED <<rk_daily_trades, rk_daily_pnl, rk_last_reset_date,
                   rk_active_positions, rk_today, rmVars, otherThanRisk>>

BacktestIdle ==
    /\ initial_balance = R(1000000)
    /\ current_balance = initial_balance
    /\ positions = <<>>
    /\ trades = <<>>
    /\ bt_pc = "done"
    /\ bt_i = 0
    /\ bt_k = 1
    /\ bt_all_data = {}
    /\ bt_price = [s \in Symbols |-> R(50)]
    /\ bt_amount = R(100000)
    /\ bt_tick = NoTick

InitRisk ==
    /\ RiskIdle
    /\ BacktestIdle
    /\ LiveIdle
    /\ LogicIdle
    /\ ReplayIdle

NextRisk ==
    \/ RkResetDailyCounters
    \/ RkCanTrade
    \/ RkOpenPosition
    \/ RkClosePosition
    \/ RkMidnight
    \/ TsRunTradingCycle

SpecRisk == InitRisk /\ [][NextRisk]_vars

\* ------------------------------------------------------------------------
\* RiskModule.check_stop_loss_take_profit
\* ------------------------------------------------------------------------
\* every position judged as a long one
ExitOfLong(position, current_price) ==
    IF RLe(current_price, position.stop_loss) THEN "STOP_LOSS"
    ELSE IF RLe(position.take_profit, current_price) THEN "TAKE_PROFIT"
    ELSE "NONE"

\* the branch of the if/elif chain the position takes
ExitOf(position, current_price) ==
    IF position.side = "BUY" /\ RLe(current_price, position.stop_loss)
    THEN "STOP_LOSS"
    ELSE IF position.side = "SELL" /\ RLe(position.stop_loss, current_price)
    THEN "STOP_LOSS"
    ELSE IF position.side = "BUY" /\ RLe(position.take_profit, current_price)
    THEN "TAKE_PROFIT"
    ELSE IF position.side = "SELL" /\ RLe(current_price, position.take_profit)
    THEN "TAKE_PROFIT"
    ELSE "NONE"

RECURSIVE PositionsToClose(_, _)
PositionsToClose(active, current_price) ==
    IF active = <<>> THEN <<>>
    ELSE LET position == Head(active)
             reason == ExitOf(position, current_price)
             rest == PositionsToClose(Tail(active), current_price)
         IN  IF position.status # "OPEN" \/ reason = "NONE" THEN rest
             ELSE <<[order_id |-> position.order_id, reason |-> reason,
                     exit_price |-> IF reason = "STOP_LOSS"
                                    THEN position.stop_loss
                                    ELSE position.take_profit]>> \o rest

RkCheckStopLossTakeProfit ==
    /\ \E current_price \in CheckPrices :
        rk_call' = [op |-> "check_stop_loss_take_profit", allowed |-> TRUE,
                    reason |-> "", current_price |-> current_price,
                    positions_to_close |->
                        PositionsToClose(rk_active_positions, current_price)]
    /\ ts_cycle' = NoCycle
    /\ UNCHANGED <<rk_daily_trades, rk_daily_pnl, rk_last_reset_date,
                   rk_active_positions, rk_today, rmVars, otherThanRisk>>

InitExits ==
    /\ RiskIdle
    /\ BacktestIdle
    /\ LiveIdle
    /\ LogicIdle
    /\ ReplayIdle

NextExits ==
    \/ RkOpenPosition
    \/ RkClosePosition
    \/ RkCheckStopLossTakeProfit

SpecExits == InitExits /\ [][NextExits]_vars

\* ========================================================================
\* RiskManager (src/risk_manager.py)
\* ========================================================================
\* max(values) of a non-empty list
MaxOf(values) ==
    values[CHOOSE j \in DOMAIN values :
               \A k \in DOMAIN values : RLe(values[k], values[j])]

\* RiskManager.calculate_drawdown
CalculateDrawdown(portfolio_values) ==
    IF Len(portfolio_values) < 2 THEN Zero
    ELSE LET peak == MaxOf(portfolio_values)
             current == portfolio_values[Len(portfolio_values)]
         IN  RDiv(RSub(peak, current), peak)

\* RiskManager.get_risk_metrics()['current_drawdown']
CurrentDrawdown ==
    IF rm_portfolio_history = <<>> THEN Zero
    ELSE CalculateDrawdown(rm_portfolio_history)

\* RiskManager.should_pause_trading: the drawdown reason
PauseForDrawdown ==
    RLt(RMul(rm_max_drawdown, <<4, 5>>), CurrentDrawdown)

\* RiskManager.check_drawdown_limit
RmCheckDrawdownLimit ==
    /\ Len(rm_portfolio_history) < MaxHistory
    /\ \E current_portfolio_value \in PortfolioValues :
        LET h == Append(rm_portfolio_history, current_portfolio_value)
            kept == IF Len(h) > 100 THEN SubSeq(h, Len(h) - 99, Len(h)) ELSE h
            drawdown == CalculateDrawdown(kept)
        IN  /\ rm_portfolio_history' = kept
            /\ rk_call' = [op |-> "check_drawdown_limit",
                           allowed |-> ~RLt(rm_max_drawdown, drawdown),
                           reason |-> ""]
    /\ ts_cycle' = NoCycle
    /\ UNCHANGED <<rk_daily_trades, rk_daily_pnl, rk_last_reset_date,
                   rk_active_positions, rk_today, rm_max_drawdown, otherThanRisk>>

InitDrawdown ==
    /\ rk_daily_trades = 0
    /\ rk_daily_pnl = Zero
    /\ rk_last_reset_date = 0
    /\ rk_active_positions = <<>>
    /\ rk_today = 0
    /\ rk_call = NoCall
    /\ rm_max_drawdown \in {<<1, 10>>, <<1, 5>>}
    /\ rm_portfolio_history = <<>>
    /\ ts_cycle = NoCycle
    /\ BacktestIdle
    /\ LiveIdle
    /\ LogicIdle
    /\ ReplayIdle

NextDrawdown ==
    \/ RmCheckDrawdownLimit
    \/ RkCanTrade
    \/ RkMidnight

SpecDrawdown == InitDrawdown /\ [][NextDrawdown]_vars

\* ========================================================================
\* TradingEngine (src/trading_engine.py)
\* self.client is the exchange client: each call returns or raises
\* ========================================================================
\* Config values the engine reads that src/config.py does not define
max_consecutive_errors == 5
MIN_USD_BALANCE == <<10, 1>>
MIN_BTC_BALANCE == <<0, 1>>
MIN_ETH_BALANCE == <<0, 1>>

AccountBalances ==
    { [USD |-> Zero, BTC |-> Zero, ETH |-> Zero],
      [USD |-> R(1000000), BTC |-> Zero, ETH |-> R(1000)],
      [USD |-> R(1000000), BTC |-> R(1000), ETH |-> R(1000)] }

TickerPrice(t) == IF t = "10" THEN R(10) ELSE R(50)
Crypto(symbol) == IF symbol = "BTC-USD" THEN "BTC" ELSE "ETH"
RMax(a, b) == IF RLe(a, b) THEN b ELSE a

\* TradingEngine.get_safe_trade_amount
GetSafeTradeAmount(symbol, side, current_price) ==
    IF side = "buy"
    THEN LET total_usd == te_account_balances.USD
         IN  IF RLt(total_usd, RAdd(bt_amount, MIN_USD_BALANCE))
             THEN LET available_usd == RMax(Zero, RSub(total_usd, MIN_USD_BALANCE))
                  IN  IF RLt(available_usd, R(10)) THEN Zero ELSE available_usd
             ELSE bt_amount
    ELSE LET crypto_balance == te_account_balances[Crypto(symbol)]
             min_balance == IF symbol = "BTC-USD" THEN MIN_BTC_BALANCE
                            ELSE MIN_ETH_BALANCE
             sellable_amount == RSub(crypto_balance, min_balance)
             trade_amount_usd == RMul(sellable_amount, current_price)
         IN  IF RLe(sellable_amount, Zero) THEN Zero
             ELSE IF RLt(bt_amount, trade_amount_usd) THEN bt_amount
             ELSE trade_amount_usd

\* TradingEngine.place_order on the engine state st = [pos, count]:
\* ticker is what get_product_ticker gives, client what place_market_order
\* does ("filled": an order, "none": a falsy order, "raise": an exception).
\* The result adds order: whether place_order returned an order.
PlaceOrder(st, symbol, side, amount_usd, ticker, client) ==
    LET none == [pos |-> st.pos, count |-> st.count, order |-> FALSE]
        current_price == TickerPrice(ticker)
        safe_amount == GetSafeTradeAmount(symbol, side, current_price)
        final_amount == RMin(amount_usd, safe_amount)
        position == [symbol |-> symbol, entry_price |-> current_price,
                     entry_time |-> te_now]
    IN  IF ticker = "error" THEN none
        ELSE IF RLe(safe_amount, Zero) THEN none
        ELSE IF te_paper_trading
        THEN [pos |-> IF side = "buy" THEN Put(st.pos, symbol, position)
                      ELSE IF HasKey(st.pos, symbol) THEN Del(st.pos, symbol)
                      ELSE st.pos,
              count |-> st.count + 1, order |-> TRUE]
        ELSE IF side = "buy" /\ RLt(te_account_balances.USD, final_amount)
        THEN none
        ELSE IF side = "sell"
                /\ RLt(te_account_balances[Crypto(symbol)],
                       RDiv(final_amount, current_price))
        THEN none
        ELSE IF client = "raise" THEN none
        ELSE [pos |-> IF client = "filled" /\ side = "buy"
                      THEN Put(st.pos, symbol, position) ELSE st.pos,
              count |-> st.count + 1, order |-> client = "filled"]

\* one iteration of the loop of TradingEngine.manage_positions;
\* st = [pos, count, attempts, fills]
ManageOne(st, symbol, ticker, client) ==
    LET position == Get(st.pos, symbol)
        current_price == TickerPrice(ticker)
        crypto_balance == te_account_balances[Crypto(symbol)]
        pnl_pct == RDiv(RSub(current_price, position.entry_price),
                        position.entry_price)
        exit == \/ RLe(pnl_pct, RNeg(STOP_LOSS_PERCENTAGE))
                \/ RLe(TAKE_PROFIT_PERCENTAGE, pnl_pct)
                \/ te_now - position.entry_time > 24
        r == PlaceOrder([pos |-> st.pos, count |-> st.count], symbol, "sell",
                        RMul(crypto_balance, current_price), ticker, client)
    IN  IF ticker = "error" THEN st
        ELSE IF RLe(crypto_balance, Zero)
        THEN [st EXCEPT !.pos = Del(st.pos, symbol)]
        ELSE IF exit
        THEN [pos |-> Del(r.pos, symbol), count |-> r.count,
              attempts |-> st.attempts + 1,
              fills |-> st.fills + (IF r.order THEN 1 ELSE 0)]
        ELSE st

RECURSIVE ManageAll(_, _, _, _)
ManageAll(st, keys, ticker, client) ==
    IF keys = <<>> THEN st
    ELSE ManageAll(ManageOne(st, Head(keys), ticker[Head(keys)],
                             client[Head(keys)]),
                   Tail(keys), ticker, client)

\* TradingEngine.check_account_balances
TeCheckAccountBalances ==
    /\ te_pc = "idle"
    /\ \E ok \in BOOLEAN, accounts \in AccountBalances :
        IF ok
        THEN /\ te_account_balances' = accounts
             /\ te_consecutive_errors' = 0
             /\ UNCHANGED te_emergency_stop
        ELSE /\ te_consecutive_errors < MaxErrors
             /\ te_consecutive_errors' = te_consecutive_errors + 1
             /\ te_emergency_stop' =
                    (te_emergency_stop \/ te_consecutive_errors + 1 >= max_consecutive_errors)
             /\ UNCHANGED te_account_balances
    /\ te_last' = [NoStep EXCEPT !.op = "check_account_balances"]
    /\ UNCHANGED <<te_paper_trading, te_active_positions, te_daily_trades,
                   te_now, te_pc, te_k, otherThanLive>>

\* execute_trading_cycle up to the balance update
TeCycleStart ==
    /\ te_pc = "idle"
    /\ \E connected \in BOOLEAN, ok \in BOOLEAN, accounts \in AccountBalances :
        IF te_emergency_stop \/ ~connected
        THEN UNCHANGED <<te_account_balances, te_consecutive_errors,
                         te_emergency_stop, te_pc>>
        ELSE IF ok
        THEN /\ te_account_balances' = accounts
             /\ te_consecutive_errors' = 0
             /\ te_pc' = "manage"
             /\ UNCHANGED te_emergency_stop
        ELSE /\ te_consecutive_errors < MaxErrors
             /\ te_consecutive_errors' = te_consecutive_errors + 1
             /\ te_emergency_stop' = (te_consecutive_errors + 1 >= max_consecutive_errors)
             /\ UNCHANGED <<te_account_balances, te_pc>>
    /\ te_last' = [NoStep EXCEPT !.op = "cycle_start"]
    /\ UNCHANGED <<te_paper_trading, te_active_positions, te_daily_trades,
                   te_now, te_k, otherThanLive>>

\* daily_trades is followed for MaxLiveCount trades from 0 and around
\* MAX_DAILY_TRADES
DailyCountFollowed(n) ==
    \/ n < MaxLiveCount
    \/ (n >= MAX_DAILY_TRADES - 1 /\ n < MAX_DAILY_TRADES + MaxLiveCount)

\* TradingEngine.manage_positions, called from execute_trading_cycle
TeManagePositions ==
    /\ te_pc = "manage"
    /\ DailyCountFollowed(te_daily_trades)
    /\ \E ticker \in [Keys(te_active_positions) -> TickerOutcomes],
          client \in [Keys(te_active_positions) -> ClientOutcomes] :
        LET st == ManageAll([pos |-> te_active_positions,
                             count |-> te_daily_trades,
                             attempts |-> 0, fills |-> 0],
                            KeyList(te_active_positions), ticker, client)
        IN  /\ te_active_positions' = st.pos
            /\ te_daily_trades' = st.count
            /\ te_last' = [op |-> "manage_positions", symbol |-> "",
                           side |-> "sell", attempts |-> st.attempts,
                           fills |-> st.fills]
    /\ te_pc' = "analyze"
    /\ te_k' = 1
    /\ UNCHANGED <<te_paper_trading, te_account_balances, te_emergency_stop,
                   te_consecutive_errors, te_now, otherThanLive>>

\* TradingEngine.should_trade
TeShouldTrade(a) ==
    IF ~a.ok THEN "none"
    ELSE IF te_emergency_stop THEN "none"
    ELSE IF te_daily_trades >= MAX_DAILY_TRADES THEN "none"
    ELSE ShouldTrade(a)

\* the body of the loop over SUPPORTED_PAIRS in execute_trading_cycle
TeAnalyzeSymbol ==
    /\ te_pc = "analyze"
    /\ DailyCountFollowed(te_daily_trades)
    /\ \E analysis \in Analyses, current_price \in Prices,
          ticker \in TickerOutcomes, client \in ClientOutcomes :
        LET symbol == SUPPORTED_PAIRS[te_k]
            position_size == bt_amount
            direction == TeShouldTrade(analysis)
            r == PlaceOrder([pos |-> te_active_positions,
                             count |-> te_daily_trades],
                            symbol, direction, position_size, ticker, client)
        IN  IF direction = "none"
            THEN /\ UNCHANGED <<te_active_positions, te_daily_trades>>
                 /\ te_last' = [NoStep EXCEPT !.op = "analyze",
                                              !.symbol = symbol]
            ELSE /\ te_active_positions' =
                        IF r.order /\ direction = "buy"
                        THEN Put(r.pos, symbol,
                                 [symbol |-> symbol,
                                  entry_price |-> current_price,
                                  entry_time |-> te_now])
                        ELSE r.pos
                 /\ te_daily_trades' = r.count
                 /\ te_last' = [op |-> "place_order", symbol |-> symbol,
                                side |-> direction, attempts |-> 1,
                                fills |-> IF r.order THEN 1 ELSE 0]
    /\ IF te_k < Len(SUPPORTED_PAIRS)
       THEN te_k' = te_k + 1 /\ UNCHANGED te_pc
       ELSE te_k' = 1 /\ te_pc' = "idle"
    /\ UNCHANGED <<te_paper_trading, te_account_balances, te_emergency_stop,
                   te_consecutive_errors, te_now, otherThanLive>>

\* TradingEngine.reset_daily_counters, scheduled at 00:00
TeResetDailyCounters ==
    /\ te_pc = "idle"
    /\ te_daily_trades' = 0
    /\ te_last' = [NoStep EXCEPT !.op = "reset_daily_counters"]
    /\ UNCHANGED <<te_paper_trading, te_active_positions, te_account_balances,
                   te_emergency_stop, te_consecutive_errors, te_now, te_pc,
                   te_k, otherThanLive>>

\* time passes between two runs of the scheduler
TeTick ==
    /\ te_pc = "idle"
    /\ \E step \in ClockSteps :
        /\ te_now + step <= MaxClock
        /\ te_now' = te_now + step
    /\ te_last' = NoStep
    /\ UNCHANGED <<te_paper_trading, te_active_positions, te_daily_trades,
                   te_account_balances, te_emergency_stop,
                   te_consecutive_errors, te_pc, te_k, otherThanLive>>

InitLive ==
    /\ te_paper_trading \in BOOLEAN
    /\ te_active_positions = <<>>
    /\ te_daily_trades = 0
    /\ te_account_balances = [USD |-> Zero, BTC |-> Zero, ETH |-> Zero]
    /\ te_emergency_stop = FALSE
    /\ te_consecutive_errors = 0
    /\ te_now = 0
    /\ te_pc = "idle"
    /\ te_k = 1
    /\ te_last = NoStep
    /\ BacktestIdle
    /\ RiskIdle
    /\ LogicIdle
    /\ ReplayIdle

NextLive ==
    \/ TeCheckAccountBalances
    \/ TeCycleStart
    \/ TeManagePositions
    \/ TeAnalyzeSymbol
    \/ TeResetDailyCounters
    \/ TeTick

SpecLive == InitLive /\ [][NextLive]_vars

\* positions a previous session saved in system_state.json
RestoredPositions ==
    { <<>>,
      <<[symbol |-> SUPPORTED_PAIRS[1], entry_price |-> R(10),
         entry_time |-> 0]>>,
      <<[symbol |-> SUPPORTED_PAIRS[1], entry_price |-> R(10),
         entry_time |-> 0],
        [symbol |-> SUPPORTED_PAIRS[2], entry_price |-> R(10),
         entry_time |-> 0]>> }

\* the engine after load_system_state restored a session that had made all
\* but one of the day's trades
InitRestored ==
    /\ te_paper_trading \in BOOLEAN
    /\ te_active_positions \in RestoredPositions
    /\ te_daily_trades = MAX_DAILY_TRADES - 1
    /\ te_account_balances \in AccountBalances
    /\ te_emergency_stop = FALSE
    /\ te_consecutive_errors = 0
    /\ te_now = 0
    /\ te_pc = "idle"
    /\ te_k = 1
    /\ te_last = NoStep
    /\ BacktestIdle
    /\ RiskIdle
    /\ LogicIdle
    /\ ReplayIdle

SpecRestored == InitRestored /\ [][NextLive]_vars

\* ========================================================================
\* LogicEngine (src/logic_engine.py)
\* ========================================================================
TECHNICAL_INDICATORS_WEIGHT == <<3, 10>>
ML_PREDICTION_WEIGHT == <<7, 20>>
TREND_CONFIRMATION_WEIGHT == <<1, 5>>
LIQUIDITY_VOLATILITY_WEIGHT == <<3, 20>>

\* the sources in the order make_decision collects them
Sources == <<"technical", "ml", "trend", "liquidity">>
\* the keys of signal_scores in their dict order
Signals == <<"BUY", "SELL", "HOLD">>

\* market regimes: trend x volatility, and UNKNOWN
Regimes ==
    [trend : {"BULLISH", "BEARISH", "SIDEWAYS"},
     vol : {"LOW", "MEDIUM", "HIGH"}]
    \cup {[trend |-> "UNKNOWN", vol |-> "UNKNOWN"]}

\* an analysis result; present = FALSE stands for None
Vote(signal, confidence) ==
    [present |-> TRUE, signal |-> signal, confidence |-> confidence]
NoVote == [present |-> FALSE, signal |-> "HOLD", confidence |-> Zero]

\* LogicEngine.analyze_technical_indicators on indicators that carry
\* at most rsi, macd and macd_signal:
\* [empty, rsi (-1: None), macd ("none", "above", "below" macd_signal)]
TechnicalSignals(indicators) ==
    (IF indicators.rsi = -1 THEN <<>>
     ELSE IF indicators.rsi < 30 THEN <<Vote("BUY", <<4, 5>>)>>
     ELSE IF indicators.rsi > 70 THEN <<Vote("SELL", <<4, 5>>)>>
     ELSE <<Vote("HOLD", <<1, 2>>)>>)
    \o
    (IF indicators.macd = "none" THEN <<>>
     ELSE IF indicators.macd = "above" THEN <<Vote("BUY", <<7, 10>>)>>
     ELSE <<Vote("SELL", <<7, 10>>)>>)

CountOf(votes, signal) ==
    Cardinality({j \in 1..Len(votes) : votes[j].signal = signal})

RECURSIVE SumConfidence(_, _)
SumConfidence(votes, signal) ==
    IF votes = <<>> THEN Zero
    ELSE RAdd(IF Head(votes).signal = signal THEN Head(votes).confidence
              ELSE Zero,
              SumConfidence(Tail(votes), signal))

\* max(d, key=d.get) over the keys BUY, SELL, HOLD: the first key whose
\* value no other key exceeds
FirstMaxCount(votes) ==
    LET b == CountOf(votes, "BUY")
        sl == CountOf(votes, "SELL")
        h == CountOf(votes, "HOLD")
    IN  IF b >= sl /\ b >= h THEN "BUY"
        ELSE IF sl >= h THEN "SELL"
        ELSE "HOLD"

AnalyzeTechnicalIndicators(indicators) ==
    IF indicators.empty THEN Vote("HOLD", <<1, 2>>)
    ELSE LET signals == TechnicalSignals(indicators)
             dominant_signal == FirstMaxCount(signals)
         IN  IF signals = <<>> THEN Vote("HOLD", <<1, 2>>)
             ELSE Vote(dominant_signal,
                       RDiv(SumConfidence(signals, dominant_signal),
                            R(CountOf(signals, dominant_signal))))

RAbs(a) == <<Abs(a[1]), a[2]>>

\* LogicEngine.analyze_trend_confirmation:
\* history is "missing", "empty", "short" or "ok" with its price_change
AnalyzeTrendConfirmation(market_data) ==
    IF market_data.history \in {"missing", "empty", "short"}
    THEN Vote("HOLD", <<1, 2>>)
    ELSE LET price_change == market_data.price_change
             confidence == RMin(<<4, 5>>,
                                RAdd(<<1, 2>>, RMul(RAbs(price_change), R(10))))
         IN  IF RLt(<<1, 50>>, price_change) THEN Vote("BUY", confidence)
             ELSE IF RLt(price_change, <<-1, 50>>) THEN Vote("SELL", confidence)
             ELSE Vote("HOLD", <<1, 2>>)

\* LogicEngine.analyze_liquidity_volatility:
\* stats is "missing" or gives liquid (volume > 1000 and quote volume
\* > 1000000) and volatility = (high_24h - low_24h) / current_price
AnalyzeLiquidityVolatility(market_data) ==
    IF market_data.stats = "missing" THEN Vote("HOLD", <<1, 2>>)
    ELSE IF market_data.liquid
    THEN IF RLt(market_data.volatility, <<1, 20>>) THEN Vote("BUY", <<7, 10>>)
         ELSE IF RLt(<<1, 10>>, market_data.volatility)
         THEN Vote("HOLD", <<3, 5>>)
         ELSE Vote("HOLD", <<1, 2>>)
    ELSE Vote("HOLD", <<2, 5>>)

\* LogicEngine._adjust_weights_for_regime
BaseWeights ==
    [technical |-> TECHNICAL_INDICATORS_WEIGHT, ml |-> ML_PREDICTION_WEIGHT,
     trend |-> TREND_CONFIRMATION_WEIGHT,
     liquidity |-> LIQUIDITY_VOLATILITY_WEIGHT]

RegimeWeights(regime) ==
    IF regime.trend = "BULLISH"
    THEN [BaseWeights EXCEPT !.trend = RMul(@, <<6, 5>>),
                             !.ml = RMul(@, <<11, 10>>),
                             !.technical = RMul(@, <<9, 10>>)]
    ELSE IF regime.trend = "BEARISH"
    THEN [BaseWeights EXCEPT !.technical = RMul(@, <<6, 5>>),
                             !.liquidity = RMul(@, <<11, 10>>),
                             !.ml = RMul(@, <<9, 10>>)]
    ELSE IF regime.trend = "SIDEWAYS"
    THEN [BaseWeights EXCEPT !.technical = RMul(@, <<13, 10>>),
                             !.trend = RMul(@, <<4, 5>>)]
    ELSE BaseWeights

AdjustWeightsForRegime(regime, adapt) ==
    IF ~adapt THEN BaseWeights
    ELSE LET w == RegimeWeights(regime)
             total == RAdd(RAdd(w.technical, w.ml), RAdd(w.trend, w.liquidity))
         IN  [k \in DOMAIN w |-> RDiv(w[k], total)]

\* LogicEngine._adjust_confidence_for_regime
RegimeConfidence(confidence, regime) ==
    IF regime.vol = "HIGH" THEN RMul(confidence, <<4, 5>>)
    ELSE IF regime.vol = "LOW" THEN RMul(confidence, <<11, 10>>)
    ELSE confidence

\* the modifier without the cap at 1
AdjustConfidenceUncapped(confidence, regime, adapt) ==
    IF ~adapt THEN confidence ELSE RegimeConfidence(confidence, regime)

AdjustConfidenceForRegime(confidence, regime, adapt) ==
    IF ~adapt THEN confidence
    ELSE RMin(RegimeConfidence(confidence, regime), R(1))

\* ------------------------------------------------------------------------
\* LogicEngine.make_decision
\* ------------------------------------------------------------------------
RECURSIVE RSum(_)
RSum(values) ==
    IF values = <<>> THEN Zero ELSE RAdd(Head(values), RSum(Tail(values)))

\* the sources whose analysis is truthy, in collection order
Present(votes) == SelectSeq(Sources, LAMBDA k : votes[k].present)

\* the sum over the four adjusted weights
TotalWeightOfAll(votes, weights) ==
    RSum([j \in 1..Len(Sources) |-> weights[Sources[j]]])

\* total_weight = sum(weights): over the collected weights only
TotalWeight(votes, weights) ==
    RSum([j \in 1..Len(Present(votes)) |-> weights[Present(votes)[j]]])

NormalizedWeights(votes, weights) ==
    [j \in 1..Len(Present(votes)) |->
        RDiv(weights[Present(votes)[j]], TotalWeight(votes, weights))]

SignalScore(votes, weights, signal) ==
    RSum([j \in 1..Len(Present(votes)) |->
            IF votes[Present(votes)[j]].signal = signal
            THEN RMul(votes[Present(votes)[j]].confidence,
                      NormalizedWeights(votes, weights)[j])
            ELSE Zero])

\* max(signal_scores, key=signal_scores.get): the first of BUY, SELL, HOLD
\* whose score no other exceeds
FirstMaxScore(scores) ==
    IF RLe(scores.SELL, scores.BUY) /\ RLe(scores.HOLD, scores.BUY) THEN "BUY"
    ELSE IF RLe(scores.HOLD, scores.SELL) THEN "SELL"
    ELSE "HOLD"

MakeDecision(votes, regime, adapt) ==
    LET weights == AdjustWeightsForRegime(regime, adapt)
        signal_scores == [sig \in {"BUY", "SELL", "HOLD"} |->
                             SignalScore(votes, weights, sig)]
        final_signal == FirstMaxScore(signal_scores)
    IN  IF Present(votes) = <<>>
        THEN [decision |-> "HOLD", confidence |-> <<1, 2>>,
              signal_scores |-> [sig \in {"BUY", "SELL", "HOLD"} |-> Zero],
              voters |-> <<>>, normalized_weights |-> <<>>]
        ELSE [decision |-> final_signal,
              confidence |-> AdjustConfidenceForRegime(
                                 signal_scores[final_signal], regime, adapt),
              signal_scores |-> signal_scores,
              voters |-> Present(votes),
              normalized_weights |-> NormalizedWeights(votes, weights)]

\* input sets
TechnicalVotes ==
    {NoVote, Vote("BUY", <<7, 10>>), Vote("HOLD", <<1, 2>>), Vote("BUY", R(1))}
MlVotes ==
    {NoVote, Vote("SELL", <<3, 5>>), Vote("BUY", R(1)), Vote("BUY", Zero)}
TrendVotes ==
    {NoVote, Vote("HOLD", <<1, 2>>), Vote("BUY", R(1)), Vote("SELL", <<4, 5>>)}
LiquidityVotes ==
    {NoVote, Vote("HOLD", <<2, 5>>), Vote("BUY", <<7, 10>>), Vote("BUY", R(1))}

IndicatorInputs ==
    { [empty |-> TRUE, rsi |-> -1, macd |-> "none"],
      [empty |-> FALSE, rsi |-> 20, macd |-> "below"],
      [empty |-> FALSE, rsi |-> 80, macd |-> "below"],
      [empty |-> FALSE, rsi |-> 50, macd |-> "none"],
      [empty |-> FALSE, rsi |-> -1, macd |-> "above"] }

MarketDataInputs ==
    { [history |-> "empty", price_change |-> Zero, stats |-> "missing",
       liquid |-> FALSE, volatility |-> Zero],
      [history |-> "short", price_change |-> Zero, stats |-> "ok",
       liquid |-> TRUE, volatility |-> <<1, 50>>],
      [history |-> "ok", price_change |-> <<3, 100>>, stats |-> "ok",
       liquid |-> FALSE, volatility |-> <<1, 50>>],
      [history |-> "ok", price_change |-> <<-1, 20>>, stats |-> "ok",
       liquid |-> TRUE, volatility |-> <<1, 5>>],
      [history |-> "ok", price_change |-> <<1, 100>>, stats |-> "missing",
       liquid |-> FALSE, volatility |-> Zero],
      [history |-> "ok", price_change |-> <<3, 100>>, stats |-> "ok",
       liquid |-> TRUE, volatility |-> <<2, 25>>] }

\* make_decision called with four analyses, each a vote or None
LeMakeDecision ==
    /\ le_pc = "start"
    /\ le_mode = "direct"
    /\ le_out' = MakeDecision(le_in.votes, le_in.regime, le_adapt)
    /\ le_pc' = "done"
    /\ UNCHANGED <<le_mode, le_adapt, le_in, otherThanLogic>>

\* steps 2 to 5 of TradingSystem.run_trading_cycle: the analyzers evaluate
\* the indicators and the market data, make_decision weighs their results
LeAnalyzeAndDecide ==
    /\ le_pc = "start"
    /\ le_mode = "cycle"
    /\ le_out' = MakeDecision(
                    [technical |-> AnalyzeTechnicalIndicators(le_in.indicators),
                     ml |-> le_in.ml_prediction,
                     trend |-> AnalyzeTrendConfirmation(le_in.market_data),
                     liquidity |-> AnalyzeLiquidityVolatility(le_in.market_data)],
                    le_in.regime, le_adapt)
    /\ le_pc' = "done"
    /\ UNCHANGED <<le_mode, le_adapt, le_in, otherThanLogic>>

InitLogic ==
    /\ le_pc = "start"
    /\ le_adapt \in BOOLEAN
    /\ le_out = <<>>
    /\ \/ /\ le_mode = "direct"
          /\ le_in \in [votes : [technical : TechnicalVotes, ml : MlVotes,
                                 trend : TrendVotes,
                                 liquidity : LiquidityVotes],
                        regime : Regimes]
       \/ /\ le_mode = "cycle"
          /\ le_in \in [indicators : IndicatorInputs,
                        ml_prediction : MlVotes,
                        market_data : MarketDataInputs,
                        regime : Regimes]
    /\ sz_pc = "done"
    /\ sz_in = <<>>
    /\ sz_out = <<>>
    /\ BacktestIdle
    /\ RiskIdle
    /\ LiveIdle
    /\ ReplayIdle

NextLogic ==
    \/ LeMakeDecision
    \/ LeAnalyzeAndDecide

SpecLogic == InitLogic /\ [][NextLogic]_vars

\* ========================================================================
\* RiskModule.calculate_position_size (the second definition, which
\* replaces the first) and _calculate_kelly_criterion
\* ========================================================================
QUANTITY == <<1, 1000>>
BASE_POSITION_SIZE == <<1, 50>>
KELLY_CRITERION == TRUE
VOLATILITY_ADJUSTMENT == TRUE

\* the fraction without the avg_win = 0 case
KellyFormula(win_rate, avg_win, avg_loss) ==
    LET b == RDiv(avg_win, RAbs(avg_loss))
        pw == RDiv(R(win_rate), R(100))
        q == RSub(R(1), pw)
    IN  RMax(Zero, RMin(RDiv(RSub(RMul(b, pw), q), b), <<1, 4>>))

\* RiskModule._calculate_kelly_criterion; with avg_win = 0 the odds b are 0,
\* the division by b raises ZeroDivisionError and the except clause
\* returns 0.5
CalculateKellyCriterion(win_rate, avg_win, avg_loss) ==
    IF avg_loss = Zero THEN <<1, 2>>
    ELSE IF avg_win = Zero THEN <<1, 2>>
    ELSE KellyFormula(win_rate, avg_win, avg_loss)

\* RiskModule._get_recent_volatility
RecentVolatility == <<1, 50>>

\* RiskModule._calculate_volatility_factor
CalculateVolatilityFactor ==
    RMax(<<1, 2>>, RMin(RDiv(R(1), RAdd(R(1), RecentVolatility)), <<3, 2>>))

\* RiskModule.calculate_position_size: 0 is falsy, so a zero win_rate,
\* avg_win or avg_loss leaves the Kelly fraction out
KellyApplies(win_rate, avg_win, avg_loss) ==
    KELLY_CRITERION /\ win_rate # 0 /\ avg_win # Zero /\ avg_loss # Zero

CalculatePositionSize(confidence, current_price, win_rate, avg_win, avg_loss) ==
    LET base_size == BASE_POSITION_SIZE
        kelly_used == KellyApplies(win_rate, avg_win, avg_loss)
        kelly_size ==
            IF kelly_used
            THEN RMul(base_size,
                      CalculateKellyCriterion(win_rate, avg_win, avg_loss))
            ELSE base_size
        volatility_factor ==
            IF VOLATILITY_ADJUSTMENT THEN CalculateVolatilityFactor ELSE R(1)
        volatility_size == RMul(kelly_size, volatility_factor)
        adjusted_size == RMul(volatility_size, RMin(confidence, R(1)))
        final_size == RMax(RMin(adjusted_size, MAX_POSITION_SIZE), QUANTITY)
    IN  [op |-> "calculate_position_size", kelly_used |-> kelly_used,
         kelly_size |-> kelly_size, volatility_factor |-> volatility_factor,
         adjusted_size |-> adjusted_size, final_size |-> final_size]

SizingInputs ==
    [confidence : {Zero, <<1, 2>>, <<9, 10>>, <<6, 5>>},
     current_price : {R(100), R(50000)},
     available_balance : {R(100), R(100000)},
     win_rate : {0, 50, 60, 100},
     avg_win : {Zero, <<1, 50>>, R(1)},
     avg_loss : {Zero, <<-1, 100>>, R(-1)}]

RkCalculateKellyCriterion ==
    /\ sz_pc = "start"
    /\ sz_out' = [op |-> "_calculate_kelly_criterion",
                  kelly_fraction |->
                      CalculateKellyCriterion(sz_in.win_rate, sz_in.avg_win,
                                              sz_in.avg_loss)]
    /\ sz_pc' = "done"
    /\ UNCHANGED <<sz_in, otherThanSizing>>

RkCalculatePositionSize ==
    /\ sz_pc = "start"
    /\ sz_out' = CalculatePositionSize(sz_in.confidence, sz_in.current_price,
                                       sz_in.win_rate, sz_in.avg_win,
                                       sz_in.avg_loss)
    /\ sz_pc' = "done"
    /\ UNCHANGED <<sz_in, otherThanSizing>>

InitSizing ==
    /\ sz_pc = "start"
    /\ sz_in \in SizingInputs
    /\ sz_out = <<>>
    /\ le_pc = "done"
    /\ le_mode = "direct"
    /\ le_adapt = TRUE
    /\ le_in = <<>>
    /\ le_out = <<>>
    /\ BacktestIdle
    /\ RiskIdle
    /\ LiveIdle
    /\ ReplayIdle

NextSizing ==
    \/ RkCalculateKellyCriterion
    \/ RkCalculatePositionSize

SpecSizing == InitSizing /\ [][NextSizing]_vars

\* ------------------------------------------------------------------------
\* Two backtest runs over data that agree up to a timestamp
\* (src/backtest_engine.py, src/data_collector.py)
\*
\* A bar carries its high and low and the technical signal counts that
\* simulate_market_conditions derives for it.  The indicators behind those
\* counts are trailing windows (rolling, shift, diff) of the bars up to the
\* bar, so they are part of the bar.  The windows and history lengths of
\* the source (50 bars) are scaled down to PatternBars and MinHistory.
\* MLEngine.load_models finds no model files: predict returns {} and the
\* ML branch of simulate_market_conditions is skipped.
\* ------------------------------------------------------------------------
MaxBars == 3
PatternBars == 2
MinHistory == 2
min_signal_strength == 5

Runs == {"a", "b"}

BarKinds ==
    { [high |-> R(100), low |-> R(90), bullish |-> 6, bearish |-> 0],
      [high |-> R(101), low |-> R(80), bullish |-> 6, bearish |-> 0],
      [high |-> R(120), low |-> R(70), bullish |-> 0, bearish |-> 3] }

BarSeries == [1..MaxBars -> BarKinds]

\* df[df.index <= timestamp]
UpTo(df, timestamp) == SubSeq(df, 1, timestamp)

\* df.tail(n)
DfTail(df, n) ==
    IF Len(df) <= n THEN df ELSE SubSeq(df, Len(df) - n + 1, Len(df))

\* the first two of series.nlargest(5), as indices into the series
TwoLargest(s) ==
    CHOOSE p \in (DOMAIN s) \X (DOMAIN s) :
        /\ p[1] # p[2]
        /\ \A k \in DOMAIN s : RLe(s[k], s[p[1]])
        /\ \A k \in (DOMAIN s) \ {p[1]} : RLe(s[k], s[p[2]])

\* the first two of series.nsmallest(5), as indices into the series
TwoSmallest(s) ==
    CHOOSE p \in (DOMAIN s) \X (DOMAIN s) :
        /\ p[1] # p[2]
        /\ \A k \in DOMAIN s : RLe(s[p[1]], s[k])
        /\ \A k \in (DOMAIN s) \ {p[1]} : RLe(s[p[2]], s[k])

DetectDoubleTop(df) ==
    /\ Len(df) >= 2
    /\ LET highs == [k \in DOMAIN df |-> df[k].high]
           p == TwoLargest(highs)
           high1 == highs[p[1]]
           high2 == highs[p[2]]
       IN  RLt(RDiv(RAbs(RSub(high1, high2)), high1), <<1, 50>>)

DetectDoubleBottom(df) ==
    /\ Len(df) >= 2
    /\ LET lows == [k \in DOMAIN df |-> df[k].low]
           p == TwoSmallest(lows)
           low1 == lows[p[1]]
           low2 == lows[p[2]]
       IN  RLt(RDiv(RAbs(RSub(low1, low2)), low1), <<1, 50>>)

\* the other detectors return False
NoPatterns == [double_top |-> FALSE, double_bottom |-> FALSE]

IdentifyChartPatterns(df) ==
    IF Len(df) < PatternBars THEN NoPatterns
    ELSE LET recent_data == DfTail(df, PatternBars)
         IN  [double_top |-> DetectDoubleTop(recent_data),
              double_bottom |-> DetectDoubleBottom(recent_data)]

\* fetch_historical_data: the patterns of the whole date range
FetchPatterns(df) == IdentifyChartPatterns(df)

SimulateMarketConditions(df, patterns) ==
    LET current == df[Len(df)]
        bullish_patterns == IF patterns.double_bottom THEN 1 ELSE 0
        bearish_patterns == IF patterns.double_top THEN 1 ELSE 0
        bullish_signals == current.bullish + bullish_patterns * 2
        bearish_signals == current.bearish + bearish_patterns * 2
    IN  [bullish_signals |-> bullish_signals,
         bearish_signals |-> bearish_signals,
         signal_strength |->
             IF bullish_signals >= bearish_signals
             THEN bullish_signals - bearish_signals
             ELSE bearish_signals - bullish_signals]

ShouldTradeOn(analysis) ==
    IF analysis.signal_strength < min_signal_strength THEN "none"
    ELSE IF analysis.bullish_signals > analysis.bearish_signals THEN "buy"
    ELSE IF analysis.bearish_signals > analysis.bullish_signals THEN "sell"
    ELSE "none"

\* the body of the loop of run_backtest for one symbol at one timestamp:
\* what was decided and which trade execute_trade was asked for
DecideAt(df, patterns, timestamp) ==
    LET current_data == UpTo(df, timestamp)
    IN  IF Len(current_data) < MinHistory
        THEN [analysed |-> FALSE, bullish_signals |-> 0,
              bearish_signals |-> 0, direction |-> "none"]
        ELSE LET analysis == SimulateMarketConditions(current_data, patterns)
             IN  [analysed |-> TRUE,
                  bullish_signals |-> analysis.bullish_signals,
                  bearish_signals |-> analysis.bearish_signals,
                  direction |-> ShouldTradeOn(analysis)]

RpFetchHistoricalData ==
    /\ rp_pc = "fetch"
    /\ rp_all_patterns' = [r \in Runs |-> FetchPatterns(rp_all_data[r])]
    /\ rp_pc' = "loop"
    /\ UNCHANGED <<rp_all_data, rp_i, rp_out, otherThanReplay>>

RpRunBacktestStep ==
    /\ rp_pc = "loop"
    /\ rp_i < MaxBars
    /\ rp_i' = rp_i + 1
    /\ rp_out' = [r \in Runs |->
                     DecideAt(rp_all_data[r], rp_all_patterns[r], rp_i')]
    /\ rp_pc' = IF rp_i' = MaxBars THEN "done" ELSE "loop"
    /\ UNCHANGED <<rp_all_data, rp_all_patterns, otherThanReplay>>

InitReplay ==
    /\ rp_all_data \in [Runs -> BarSeries]
    /\ rp_all_patterns = <<>>
    /\ rp_pc = "fetch"
    /\ rp_i = 0
    /\ rp_out = <<>>
    /\ LogicIdle
    /\ BacktestIdle
    /\ RiskIdle
    /\ LiveIdle
    /\ tw_args = <<>>
    /\ tw_data = <<>>
    /\ tw_now = <<>>
    /\ tw_eng = <<>>
    /\ dd_portfolio_history = <<>>
    /\ dd_n = 0
    /\ dd_out = <<>>
    /\ fr_pc = "returned"
    /\ fr_k = 1
    /\ fr_all_data = {}
    /\ fr_i = 0
    /\ fr_count = <<>>
    /\ fr_metrics = FALSE
    /\ fr_report = FALSE
    /\ sv_emergency_stop = FALSE
    /\ sv_consecutive_errors = 0
    /\ sv_recovery_attempts = 0
    /\ sv_pc = "exited"
    /\ sv_last = <<>>

NextReplay ==
    \/ RpFetchHistoricalData
    \/ RpRunBacktestStep

SpecReplay == InitReplay /\ [][NextReplay]_vars

\* ------------------------------------------------------------------------
\* Two BacktestEngine objects, each constructed and run once over the same
\* fetched data (src/backtest_engine.py: __init__, run_backtest,
\* calculate_performance_metrics).  Every symbol has enough history at
\* every timestamp; volatility and Sharpe ratio are functions of
\* daily_balances alone and are left out of the metrics record.
\* ------------------------------------------------------------------------
TwTicks == 2
NoDate == -1
StartArgs == {NoDate, 1}
EndArgs == {NoDate, 3}
WallClocks == {5, 6}

TwTickKinds ==
    { [price |-> R(10), analysis |->
          [ok |-> TRUE, bullish_signals |-> 6, bearish_signals |-> 0, ml |-> 70]],
      [price |-> R(50), analysis |->
          [ok |-> TRUE, bullish_signals |-> 0, bearish_signals |-> 6, ml |-> -1]],
      [price |-> R(50), analysis |->
          [ok |-> FALSE, bullish_signals |-> 0, bearish_signals |-> 0, ml |-> -1]] }

NoEngine == [pc |-> "none"]

\* start_date or (datetime.now() - timedelta(days=30))
ResolveStartDate(start_date, now) ==
    IF start_date = NoDate THEN now - 30 ELSE start_date

\* an end date that ignores the argument
EndDateIsNow(end_date, now) == now

\* end_date or datetime.now()
ResolveEndDate(end_date, now) ==
    IF end_date = NoDate THEN now ELSE end_date

Construct(start_date, end_date, balance, now) ==
    [pc |-> "constructed",
     start_date |-> ResolveStartDate(start_date, now),
     end_date |-> ResolveEndDate(end_date, now),
     initial_balance |-> balance,
     \* current_balance, positions, trades
     ledger |-> [bal |-> balance, pos |-> <<>>, trades |-> <<>>,
                 ok |-> FALSE],
     daily_balances |-> <<>>,
     performance_metrics |-> <<>>,
     i |-> 0,
     k |-> 1]

\* the loop body of run_backtest for one symbol at one timestamp
ProcessSymbol(st, symbol, tick, timestamp, amount_usd) ==
    CheckThenTrade(st, symbol, tick.price, timestamp,
                   ShouldTrade(tick.analysis), amount_usd)

\* "Close any remaining positions at end price", stamped self.end_date
RECURSIVE CloseRemaining(_, _, _, _)
CloseRemaining(st, keys, last_row, end_date) ==
    IF keys = <<>> THEN st
    ELSE CloseRemaining(
             ExecuteTrade(st, Head(keys), "sell", last_row[Head(keys)].price,
                          end_date, Get(st.pos, Head(keys)).total_invested),
             Tail(keys), last_row, end_date)

RECURSIVE CountTrades(_, _)
CountTrades(ts, winning) ==
    IF ts = <<>> THEN 0
    ELSE (IF ts[1].has_pnl /\ (IF winning THEN RLt(Zero, ts[1].pnl_usd)
                               ELSE RLt(ts[1].pnl_usd, Zero))
          THEN 1 ELSE 0) + CountTrades(Tail(ts), winning)

RECURSIVE TotalPnl(_)
TotalPnl(ts) ==
    IF ts = <<>> THEN Zero
    ELSE RAdd(IF ts[1].has_pnl THEN ts[1].pnl_usd ELSE Zero,
              TotalPnl(Tail(ts)))

\* the maximum-drawdown loop of calculate_performance_metrics
RECURSIVE MaxDrawdownFrom(_, _, _)
MaxDrawdownFrom(daily, peak_balance, max_drawdown) ==
    IF daily = <<>> THEN max_drawdown
    ELSE LET balance == daily[1].balance
             peak == IF RLt(peak_balance, balance) THEN balance
                     ELSE peak_balance
             drawdown == RDiv(RSub(peak, balance), peak)
         IN  MaxDrawdownFrom(Tail(daily), peak,
                             IF RLt(max_drawdown, drawdown) THEN drawdown
                             ELSE max_drawdown)

CalculatePerformanceMetrics(initial, st, daily) ==
    [initial_balance |-> initial,
     final_balance |-> st.bal,
     total_return |-> RSub(st.bal, initial),
     total_trades |-> Len(st.trades),
     winning_trades |-> CountTrades(st.trades, TRUE),
     losing_trades |-> CountTrades(st.trades, FALSE),
     total_pnl |-> TotalPnl(st.trades),
     max_drawdown |-> MaxDrawdownFrom(daily, initial, Zero)]

TwConstruct(r) ==
    /\ tw_eng[r].pc = "none"
    /\ r = "b" => tw_eng["a"].pc = "done"
    /\ \E now \in WallClocks :
        /\ tw_now' = [tw_now EXCEPT ![r] = now]
        /\ tw_eng' = [tw_eng EXCEPT ![r] =
               Construct(tw_args.start_date, tw_args.end_date,
                         tw_args.initial_balance, now)]
    /\ UNCHANGED <<tw_args, tw_data, otherThanTwoRuns>>

\* run_backtest up to the main loop: "Reset state"
TwRunBacktest(r) ==
    /\ tw_eng[r].pc = "constructed"
    /\ tw_eng' = [tw_eng EXCEPT ![r] =
           [tw_eng[r] EXCEPT
               !.pc = "loop",
               !.daily_balances =
                   <<[date |-> tw_eng[r].start_date,
                      balance |-> tw_eng[r].initial_balance]>>,
               !.i = 0,
               !.k = 1]]
    /\ UNCHANGED <<tw_args, tw_data, tw_now, otherThanTwoRuns>>

\* one pass of the loop body of run_backtest, for the symbol at (i, k);
\* timestamps are 1..Len(tw_data)
TwProcessSymbol(r) ==
    /\ tw_eng[r].pc = "loop"
    /\ LET e == tw_eng[r]
           timestamp == e.i + 1
           symbol == SUPPORTED_PAIRS[e.k]
           last == e.k = Len(SUPPORTED_PAIRS)
           i2 == IF last THEN e.i + 1 ELSE e.i
       IN  tw_eng' = [tw_eng EXCEPT ![r] =
               [e EXCEPT !.ledger =
                             ProcessSymbol(e.ledger, symbol,
                                           tw_data[timestamp][symbol],
                                           timestamp, tw_args.amount_usd),
                         !.daily_balances =
                             IF e.k = 1 /\ e.i % 24 = 0
                             THEN Append(e.daily_balances,
                                         [date |-> timestamp,
                                          balance |-> e.ledger.bal])
                             ELSE e.daily_balances,
                         !.i = i2,
                         !.k = IF last THEN 1 ELSE e.k + 1,
                         !.pc = IF i2 >= Len(tw_data) THEN "close"
                                ELSE "loop"]]
    /\ UNCHANGED <<tw_args, tw_data, tw_now, otherThanTwoRuns>>

\* run_backtest after the main loop: close what is left
TwCloseRemaining(r) ==
    /\ tw_eng[r].pc = "close"
    /\ tw_eng' = [tw_eng EXCEPT ![r] =
           [tw_eng[r] EXCEPT
               !.pc = "metrics",
               !.ledger = CloseRemaining(tw_eng[r].ledger,
                                         KeyList(tw_eng[r].ledger.pos),
                                         tw_data[Len(tw_data)],
                                         tw_eng[r].end_date)]]
    /\ UNCHANGED <<tw_args, tw_data, tw_now, otherThanTwoRuns>>

\* run_backtest from calculate_performance_metrics on
TwFinish(r) ==
    /\ tw_eng[r].pc = "metrics"
    /\ tw_eng' = [tw_eng EXCEPT ![r] =
           [tw_eng[r] EXCEPT
               !.pc = "done",
               !.performance_metrics =
                   CalculatePerformanceMetrics(tw_eng[r].initial_balance,
                                               tw_eng[r].ledger,
                                               tw_eng[r].daily_balances)]]
    /\ UNCHANGED <<tw_args, tw_data, tw_now, otherThanTwoRuns>>

InitTwoRuns ==
    /\ tw_args \in [start_date : StartArgs, end_date : EndArgs,
                    initial_balance : {R(10000)},
                    amount_usd : {R(100)}]
    /\ tw_data \in [1..TwTicks -> [Symbols -> TwTickKinds]]
    /\ tw_now = [r \in Runs |-> 0]
    /\ tw_eng = [r \in Runs |-> NoEngine]
    /\ rp_all_data = <<>>
    /\ rp_all_patterns = <<>>
    /\ rp_pc = "done"
    /\ rp_i = 0
    /\ rp_out = <<>>
    /\ LogicIdle
    /\ BacktestIdle
    /\ RiskIdle
    /\ LiveIdle
    /\ dd_portfolio_history = <<>>
    /\ dd_n = 0
    /\ dd_out = <<>>
    /\ fr_pc = "returned"
    /\ fr_k = 1
    /\ fr_all_data = {}
    /\ fr_i = 0
    /\ fr_count = <<>>
    /\ fr_metrics = FALSE
    /\ fr_report = FALSE
    /\ sv_emergency_stop = FALSE
    /\ sv_consecutive_errors = 0
    /\ sv_recovery_attempts = 0
    /\ sv_pc = "exited"
    /\ sv_last = <<>>

NextTwoRuns ==
    \/ \E r \in Runs : TwConstruct(r)
    \/ \E r \in Runs : TwRunBacktest(r)
    \/ \E r \in Runs : TwProcessSymbol(r)
    \/ \E r \in Runs : TwCloseRemaining(r)
    \/ \E r \in Runs : TwFinish(r)

SpecTwoRuns == InitTwoRuns /\ [][NextTwoRuns]_vars

\* ------------------------------------------------------------------------
\* RiskManager.check_drawdown_limit over a long sequence of observations
\* (src/risk_manager.py).  The run starts from a history that earlier
\* observations have built: empty, or a first value followed by equal
\* later values, up to the 100 values the manager keeps.
\* ------------------------------------------------------------------------
MaxObservations == 3
HISTORY_KEPT == 100

Repeat(first, rest, n) == [j \in 1..n |-> IF j = 1 THEN first ELSE rest]

LongHistories ==
    {<<>>} \cup
    { Repeat(first, rest, n) :
          first \in PortfolioValues, rest \in PortfolioValues,
          n \in {HISTORY_KEPT - 1, HISTORY_KEPT} }

\* self.portfolio_history after the append and the cut to the last 100
KeepLast(history, value) ==
    LET h == Append(history, value)
    IN  IF Len(h) > HISTORY_KEPT
        THEN SubSeq(h, Len(h) - HISTORY_KEPT + 1, Len(h))
        ELSE h

\* the peak calculate_drawdown measures against
PeakOf(portfolio_values) ==
    IF portfolio_values = <<>> THEN Zero ELSE MaxOf(portfolio_values)

DdCheckDrawdownLimit ==
    /\ dd_n < MaxObservations
    /\ \E current_portfolio_value \in PortfolioValues :
        LET kept == KeepLast(dd_portfolio_history, current_portfolio_value)
        IN  /\ dd_portfolio_history' = kept
            /\ dd_out' = [observed |-> TRUE,
                          previous_peak |-> PeakOf(dd_portfolio_history),
                          peak |-> PeakOf(kept),
                          drawdown |-> CalculateDrawdown(kept)]
    /\ dd_n' = dd_n + 1
    /\ UNCHANGED otherThanLongRun

InitLongRun ==
    /\ dd_portfolio_history \in LongHistories
    /\ dd_n = 0
    /\ dd_out = [observed |-> FALSE, previous_peak |-> Zero, peak |-> Zero,
                 drawdown |-> Zero]
    /\ rp_all_data = <<>>
    /\ rp_all_patterns = <<>>
    /\ rp_pc = "done"
    /\ rp_i = 0
    /\ rp_out = <<>>
    /\ tw_args = <<>>
    /\ tw_data = <<>>
    /\ tw_now = <<>>
    /\ tw_eng = <<>>
    /\ LogicIdle
    /\ BacktestIdle
    /\ RiskIdle
    /\ LiveIdle
    /\ fr_pc = "returned"
    /\ fr_k = 1
    /\ fr_all_data = {}
    /\ fr_i = 0
    /\ fr_count = <<>>
    /\ fr_metrics = FALSE
    /\ fr_report = FALSE
    /\ sv_emergency_stop = FALSE
    /\ sv_consecutive_errors = 0
    /\ sv_recovery_attempts = 0
    /\ sv_pc = "exited"
    /\ sv_last = <<>>

NextLongRun == DdCheckDrawdownLimit

SpecLongRun == InitLongRun /\ [][NextLongRun]_vars

\* ------------------------------------------------------------------------
\* Control flow of BacktestEngine.run_backtest: the fetch of each symbol,
\* the main loop with its try/except, the metrics and the report
\* (src/backtest_engine.py)
\* ------------------------------------------------------------------------
MaxTimestamps == 4

\* what DataCollector.fetch_historical_data does inside
\* BacktestEngine.fetch_historical_data: returns a frame, returns None,
\* or raises
FetchOutcomes == {"frame", "none", "raises"}

\* the value BacktestEngine.fetch_historical_data returns
FetchHistoricalData(outcome) ==
    IF outcome = "frame" THEN "df, patterns"
    ELSE IF outcome = "none" THEN "None"
    ELSE "None, {}"

\* how one pass of the main loop body ends
TickOutcomes == {"traded", "held", "raises"}

NoCounts == [traded |-> 0, held |-> 0, skipped |-> 0]

\* df, patterns = self.fetch_historical_data(symbol, ...) for one symbol
FrFetchSymbol ==
    /\ fr_pc = "fetch"
    /\ fr_k <= Len(SUPPORTED_PAIRS)
    /\ \E outcome \in FetchOutcomes :
        LET returned == FetchHistoricalData(outcome)
        IN  IF returned = "None"
            THEN \* a single None cannot be unpacked into df, patterns
                 /\ fr_pc' = "raised"
                 /\ UNCHANGED <<fr_k, fr_all_data>>
            ELSE /\ fr_pc' = "fetch"
                 /\ fr_k' = fr_k + 1
                 /\ fr_all_data' =
                        IF returned = "df, patterns"
                        THEN fr_all_data \cup {SUPPORTED_PAIRS[fr_k]}
                        ELSE fr_all_data
    /\ UNCHANGED <<fr_i, fr_count, fr_metrics, fr_report, otherThanFlow>>

\* if not all_data: return
FrNoData ==
    /\ fr_pc = "fetch"
    /\ fr_k > Len(SUPPORTED_PAIRS)
    /\ fr_all_data = {}
    /\ fr_pc' = "returned"
    /\ UNCHANGED <<fr_k, fr_all_data, fr_i, fr_count, fr_metrics, fr_report,
                   otherThanFlow>>

FrStartLoop ==
    /\ fr_pc = "fetch"
    /\ fr_k > Len(SUPPORTED_PAIRS)
    /\ fr_all_data # {}
    /\ fr_pc' = "loop"
    /\ UNCHANGED <<fr_k, fr_all_data, fr_i, fr_count, fr_metrics, fr_report,
                   otherThanFlow>>

\* one timestamp of the main loop; an exception is logged and the
\* timestamp skipped
FrTimestamp ==
    /\ fr_pc = "loop"
    /\ fr_i < MaxTimestamps
    /\ \E outcome \in TickOutcomes :
        fr_count' =
            IF outcome = "traded"
            THEN [fr_count EXCEPT !.traded = @ + 1]
            ELSE IF outcome = "held"
            THEN [fr_count EXCEPT !.held = @ + 1]
            ELSE [fr_count EXCEPT !.skipped = @ + 1]
    /\ fr_i' = fr_i + 1
    /\ UNCHANGED <<fr_pc, fr_k, fr_all_data, fr_metrics, fr_report,
                   otherThanFlow>>

\* after the last timestamp: close positions, metrics, reports
FrFinish ==
    /\ fr_pc = "loop"
    /\ fr_i = MaxTimestamps
    /\ fr_metrics' = TRUE
    /\ fr_report' = TRUE
    /\ fr_pc' = "returned"
    /\ UNCHANGED <<fr_k, fr_all_data, fr_i, fr_count, otherThanFlow>>

InitFlow ==
    /\ fr_pc = "fetch"
    /\ fr_k = 1
    /\ fr_all_data = {}
    /\ fr_i = 0
    /\ fr_count = NoCounts
    /\ fr_metrics = FALSE
    /\ fr_report = FALSE
    /\ rp_all_data = <<>>
    /\ rp_all_patterns = <<>>
    /\ rp_pc = "done"
    /\ rp_i = 0
    /\ rp_out = <<>>
    /\ tw_args = <<>>
    /\ tw_data = <<>>
    /\ tw_now = <<>>
    /\ tw_eng = <<>>
    /\ dd_portfolio_history = <<>>
    /\ dd_n = 0
    /\ dd_out = <<>>
    /\ LogicIdle
    /\ BacktestIdle
    /\ RiskIdle
    /\ LiveIdle
    /\ sv_emergency_stop = FALSE
    /\ sv_consecutive_errors = 0
    /\ sv_recovery_attempts = 0
    /\ sv_pc = "exited"
    /\ sv_last = <<>>

NextFlow ==
    \/ FrFetchSymbol
    \/ FrNoData
    \/ FrStartLoop
    \/ FrTimestamp
    \/ FrFinish

SpecFlow == InitFlow /\ [][NextFlow]_vars

\* ------------------------------------------------------------------------
\* TradingEngine: consecutive errors, emergency stop and recovery
\* (src/trading_engine.py: check_account_balances, execute_trading_cycle,
\* attempt_recovery, run).  st is [stop, errors, attempts]; the orders a
\* cycle submits are counted, not described.
\* ------------------------------------------------------------------------
max_recovery_attempts == 10

\* the error count is followed up to this value
MaxCountedErrors == 7

\* a balance check that leaves the error count alone
ErrorsKept(errors) == errors

\* self.consecutive_errors after a successful balance check
ErrorsAfterBalanceCheck(errors) == 0

\* a cycle that never looks at the emergency stop
CycleNeverSkipped(stop) == FALSE

\* if self.emergency_stop: return, at the top of execute_trading_cycle
CycleSkipped(stop) == stop

\* TradingEngine.check_account_balances; ok: get_accounts did not raise
CheckAccountBalances(st, ok) ==
    IF ok
    THEN [st EXCEPT !.errors = ErrorsAfterBalanceCheck(st.errors)]
    ELSE [st EXCEPT !.errors = st.errors + 1,
                    !.stop = (st.stop
                              \/ st.errors + 1 >= max_consecutive_errors)]

\* what can happen to one trading cycle:
\* network, api: the two connectivity checks pass;
\* balance: the balance check succeeds;
\* refetch: get_portfolio_value finds account_balances empty and checks the
\*   balances again ("no"), and that check succeeds ("ok") or not ("fails");
\* exits: orders manage_positions submits;
\* signals: symbols whose analysis asks for a trade;
\* raises: a statement of the cycle outside the inner try blocks raises
CycleOutcomes ==
    [network : BOOLEAN, api : BOOLEAN, balance : BOOLEAN,
     refetch : {"no", "ok", "fails"}, exits : 0..1, signals : 0..1,
     raises : BOOLEAN]

\* TradingEngine.execute_trading_cycle; the result adds orders (submitted in
\* this cycle) and under_stop (submitted while emergency_stop was set)
ExecuteTradingCycle(st, o) ==
    LET none == [stop |-> st.stop, errors |-> st.errors,
                 attempts |-> st.attempts, orders |-> 0, under_stop |-> 0]
        s1 == CheckAccountBalances(st, o.balance)
        s2 == IF o.refetch = "no" THEN s1
              ELSE CheckAccountBalances(s1, o.refetch = "ok")
        \* manage_positions does not look at the emergency stop
        exits == o.exits
        \* should_trade returns False under emergency stop
        entries == IF s2.stop THEN 0 ELSE o.signals
    IN  IF CycleSkipped(st.stop) THEN none
        ELSE IF ~o.network \/ ~o.api THEN none
        ELSE IF ~o.balance
        THEN [stop |-> s1.stop, errors |-> s1.errors,
              attempts |-> s1.attempts, orders |-> 0, under_stop |-> 0]
        ELSE [stop |-> s2.stop,
              errors |-> IF o.raises THEN s2.errors + 1 ELSE s2.errors,
              attempts |-> s2.attempts,
              orders |-> exits + entries,
              under_stop |-> IF st.stop \/ s2.stop THEN exits + entries
                             ELSE 0]

RecoveryOutcomes == {"network_down", "api_down", "raises", "recovered"}

\* TradingEngine.attempt_recovery
AttemptRecovery(st, outcome) ==
    IF outcome = "network_down" THEN st
    ELSE IF outcome = "api_down" THEN st
    ELSE IF outcome = "raises"
    THEN [st EXCEPT !.attempts = st.attempts + 1]
    ELSE [stop |-> FALSE, errors |-> 0, attempts |-> 0]

SvState == [stop |-> sv_emergency_stop, errors |-> sv_consecutive_errors,
            attempts |-> sv_recovery_attempts]

SvLog(op, orders, under_stop, outcome) ==
    [op |-> op, stop_before |-> sv_emergency_stop,
     attempts_before |-> sv_recovery_attempts,
     orders |-> orders, under_stop |-> under_stop, outcome |-> outcome]

\* the periodic balance check of the main loop
SvCheckAccountBalances ==
    /\ sv_pc = "loop"
    /\ sv_consecutive_errors < MaxCountedErrors
    /\ \E ok \in BOOLEAN :
        LET st == CheckAccountBalances(SvState, ok)
        IN  /\ sv_emergency_stop' = st.stop
            /\ sv_consecutive_errors' = st.errors
            /\ sv_last' = SvLog("check_account_balances", 0, 0,
                                IF ok THEN "ok" ELSE "fails")
    /\ UNCHANGED <<sv_recovery_attempts, sv_pc, otherThanSupervision>>

\* the hourly execute_trading_cycle run by schedule.run_pending
SvExecuteTradingCycle ==
    /\ sv_pc = "loop"
    /\ sv_consecutive_errors < MaxCountedErrors
    /\ \E o \in CycleOutcomes :
        LET st == ExecuteTradingCycle(SvState, o)
        IN  /\ sv_emergency_stop' = st.stop
            /\ sv_consecutive_errors' = st.errors
            /\ sv_last' = SvLog("execute_trading_cycle", st.orders,
                                st.under_stop,
                                IF o.raises THEN "raises" ELSE "ok")
    /\ UNCHANGED <<sv_recovery_attempts, sv_pc, otherThanSupervision>>

\* "Recovery attempts if needed" in the main loop
SvAttemptRecovery ==
    /\ sv_pc = "loop"
    /\ sv_emergency_stop
    /\ sv_recovery_attempts < max_recovery_attempts
    /\ \E outcome \in RecoveryOutcomes :
        LET st == AttemptRecovery(SvState, outcome)
        IN  /\ sv_emergency_stop' = st.stop
            /\ sv_consecutive_errors' = st.errors
            /\ sv_recovery_attempts' = st.attempts
            /\ sv_last' = SvLog("attempt_recovery", 0, 0, outcome)
    /\ UNCHANGED <<sv_pc, otherThanSupervision>>

\* except Exception in the main loop
SvMainLoopError ==
    /\ sv_pc = "loop"
    /\ sv_consecutive_errors < MaxCountedErrors
    /\ sv_consecutive_errors' = sv_consecutive_errors + 1
    /\ IF sv_consecutive_errors + 1 >= max_consecutive_errors
       THEN /\ sv_emergency_stop' = TRUE
            /\ sv_pc' = IF sv_recovery_attempts >= max_recovery_attempts
                        THEN "exited" ELSE "loop"
       ELSE UNCHANGED <<sv_emergency_stop, sv_pc>>
    /\ sv_last' = SvLog("main_loop_error", 0, 0, "raises")
    /\ UNCHANGED <<sv_recovery_attempts, otherThanSupervision>>

InitSupervision ==
    /\ sv_emergency_stop = FALSE
    /\ sv_consecutive_errors = 0
    /\ sv_recovery_attempts = 0
    /\ sv_pc = "loop"
    /\ sv_last = [op |-> "none", stop_before |-> FALSE,
                  attempts_before |-> 0, orders |-> 0, under_stop |-> 0,
                  outcome |-> "ok"]
    /\ rp_all_data = <<>>
    /\ rp_all_patterns = <<>>
    /\ rp_pc = "done"
    /\ rp_i = 0
    /\ rp_out = <<>>
    /\ tw_args = <<>>
    /\ tw_data = <<>>
    /\ tw_now = <<>>
    /\ tw_eng = <<>>
    /\ dd_portfolio_history = <<>>
    /\ dd_n = 0
    /\ dd_out = <<>>
    /\ fr_pc = "returned"
    /\ fr_k = 1
    /\ fr_all_data = {}
    /\ fr_i = 0
    /\ fr_count = <<>>
    /\ fr_metrics = FALSE
    /\ fr_report = FALSE
    /\ LogicIdle
    /\ BacktestIdle
    /\ RiskIdle
    /\ LiveIdle

NextSupervision ==
    \/ SvCheckAccountBalances
    \/ SvExecuteTradingCycle
    \/ SvAttemptRecovery
    \/ SvMainLoopError

SpecSupervision == InitSupervision /\ [][NextSupervision]_vars

\* ------------------------------------------------------------------------
\* Properties of the backtest ledger
\* ------------------------------------------------------------------------
LastTrade(ts) == ts[Len(ts)]

\* cash before trade j, and the quantity trade j moved, read off the history
BalBefore(j) == IF j = 1 THEN initial_balance ELSE trades[j - 1].balance_after

QtyOf(j) ==
    IF trades[j].side = "buy" THEN RDiv(trades[j].amount_usd, trades[j].price)
    ELSE RDiv(RSub(trades[j].balance_after, BalBefore(j)), trades[j].price)

\* quantity of `symbol` held just before trade j
RECURSIVE HeldBefore(_, _)
HeldBefore(j, symbol) ==
    IF j <= 1 THEN Zero
    ELSE LET h == HeldBefore(j - 1, symbol)
         IN  IF trades[j - 1].symbol # symbol THEN h
             ELSE IF trades[j - 1].side = "buy" THEN RAdd(h, QtyOf(j - 1))
             ELSE RSub(h, QtyOf(j - 1))

\* the ledger after the exit-trigger check of the loop body now starting
AfterCheck(symbol, price) == CheckStopLossTakeProfit(Ledger, symbol, price, bt_i)

\* C1: every close the backtest executes (stop-loss, take-profit, end-of-run
\* liquidation) sells the whole held quantity and removes the symbol from
\* the position map, so no position is open when run_backtest finishes.
C1_ClosesSellEverything ==
    /\ bt_pc = "done" => positions = <<>>
    /\ (bt_tick.trigger # "none" /\ bt_tick.signal # "buy")
          => ~HasKey(positions, bt_tick.symbol)

\* C2: a buy that opens a position, followed at once by a sell of the same
\* symbol at the same price, restores cash to its value before the buy,
\* leaves no position on the symbol and realizes zero P&L.
C2_RoundTripRestoresCash ==
    \A j \in 1..(Len(trades) - 1) :
        ( /\ trades[j].side = "buy"
          /\ trades[j + 1].side = "sell"
          /\ trades[j + 1].symbol = trades[j].symbol
          /\ trades[j + 1].price = trades[j].price
          /\ HeldBefore(j, trades[j].symbol) = Zero )
        => /\ trades[j + 1].balance_after = BalBefore(j)
           /\ HeldBefore(j + 2, trades[j].symbol) = Zero
           /\ trades[j + 1].pnl_usd = Zero

\* C3: with the configured 2% stop-loss and 4% take-profit, a processed tick
\* whose price is at or below entry x (1 - 2/100) fires the stop-loss close
\* of the open position, and one at or above entry x (1 + 4/100) fires the
\* take-profit close.
Hundred == R(100)
StopPrice(entry_price) ==
    RMul(entry_price, RSub(R(1), RDiv(STOP_LOSS_PERCENTAGE, Hundred)))
TargetPrice(entry_price) ==
    RMul(entry_price, RAdd(R(1), RDiv(TAKE_PROFIT_PERCENTAGE, Hundred)))

C3_ExitAtTwoAndFourPercent ==
    [][ (bt_pc = "loop" /\ bt_tick'.checked
         /\ HasKey(positions, bt_tick'.symbol))
        => LET entry_price == Get(positions, bt_tick'.symbol).entry_price
           IN  /\ RLe(bt_tick'.price, StopPrice(entry_price))
                    => bt_tick'.trigger = "stop_loss"
               /\ RLe(TargetPrice(entry_price), bt_tick'.price)
                    => bt_tick'.trigger = "take_profit" ]_vars

\* C4: an executed buy on a symbol that already has an open position makes
\* the quantity oldQty + newQty and the entry price
\* (oldQty x oldEntry + newQty x price) / (oldQty + newQty), and leaves
\* exactly one position for the symbol.
C4_AddAveragesEntryPrice ==
    [][ (bt_pc = "loop" /\ bt_tick'.checked /\ bt_tick'.signal = "buy"
         /\ bt_tick'.ok
         /\ HasKey(AfterCheck(bt_tick'.symbol, bt_tick'.price).pos,
                   bt_tick'.symbol))
        => LET symbol == bt_tick'.symbol
               price == bt_tick'.price
               old == Get(AfterCheck(symbol, price).pos, symbol)
               new == Get(positions', symbol)
               newQty == RDiv(LastTrade(trades').amount_usd, price)
           IN  /\ new.amount = RAdd(old.amount, newQty)
               /\ new.entry_price =
                    RDiv(RAdd(RMul(old.amount, old.entry_price),
                              RMul(newQty, price)),
                         RAdd(old.amount, newQty))
               /\ Cardinality({n \in 1..Len(positions') :
                                 positions'[n].symbol = symbol}) = 1 ]_vars

\* C5: every trade that closes a position, fully or partly, appends exactly
\* one trade record, and the record carries the realized P&L
\* (exitPrice - entryPrice) x quantitySold.
HeldIn(pos, symbol) == IF HasKey(pos, symbol) THEN Get(pos, symbol).amount ELSE Zero

CloseRecorded(before, after, symbol, price) ==
    LET rec == LastTrade(after.trades)
        sold == RSub(HeldIn(before.pos, symbol), HeldIn(after.pos, symbol))
    IN  /\ Len(after.trades) = Len(before.trades) + 1
        /\ rec.side = "sell"
        /\ rec.has_pnl
        /\ rec.pnl_usd =
             RMul(RSub(price, Get(before.pos, symbol).entry_price), sold)

C5_CloseRecordsRealizedPnl ==
    [][ (bt_pc = "loop" /\ bt_tick'.checked)
        => LET symbol == bt_tick'.symbol
               price == bt_tick'.price
               st1 == AfterCheck(symbol, price)
               st2 == [bal |-> current_balance', pos |-> positions',
                       trades |-> trades']
           IN  /\ bt_tick'.trigger # "none"
                    => CloseRecorded(Ledger, st1, symbol, price)
               /\ (bt_tick'.signal = "sell" /\ bt_tick'.ok)
                    => CloseRecorded(st1, st2, symbol, price) ]_vars

\* ------------------------------------------------------------------------
\* Properties of the risk gate and the live ledgers
\* ------------------------------------------------------------------------
\* C6: the active-position map holds at most one open position per symbol:
\* an approved open (one that directly follows a can_trade call that allowed
\* trading) on the single traded symbol Config.SYMBOL never leaves a second
\* active entry
C6_OnePositionPerSymbol ==
    [][(rk_call.op = "can_trade" /\ rk_call.allowed
        /\ rk_call'.op = "open_position")
       => Len(rk_active_positions') <= 1]_vars

\* C7: a refused order (every order attempted in the step returned no order:
\* insufficient balance, a failing client call or a broker that gives no
\* fill) leaves the active positions, the cached balances and the daily
\* trade counter exactly as they were
C7_RefusedOrderChangesNothing ==
    [][(te_last'.op \in {"manage_positions", "place_order"}
        /\ te_last'.attempts > 0 /\ te_last'.fills = 0)
       => UNCHANGED <<te_active_positions, te_account_balances,
                      te_daily_trades>>]_vars

\* C8: a cycle that starts with the daily trade count at the maximum and a
\* BUY or SELL decision of passing confidence ends with the decision
\* rejected for a recorded reason, the effective action HOLD and no order
C8_DailyLimitDowngradesToHold ==
    (ts_cycle.ran /\ ts_cycle.trades_at_start = MAX_DAILY_TRADES
     /\ ts_cycle.decision # "HOLD" /\ ts_cycle.confidence >= 60)
    => (ts_cycle.action = "HOLD" /\ ts_cycle.reason # "" /\ ~ts_cycle.order)

\* C9: while the current drawdown exceeds 80% of the maximum drawdown the
\* gate allows no trade
C9_GateRejectsInDrawdown ==
    [][(PauseForDrawdown /\ rk_call'.op = "can_trade")
       => ~rk_call'.allowed]_vars

\* C10: a closing trade that is executed raises the daily trade counter by
\* exactly one
C10_CloseCountsAsTrade ==
    [][(rk_call'.op = "close_position" /\ rk_call'.allowed)
       => rk_daily_trades' = rk_daily_trades + 1]_vars

Decided == le_pc = "done" /\ le_mode = "direct"
DecidedInCycle == le_pc = "done" /\ le_mode = "cycle"

\* the directions whose accumulated score is the highest one
TopSignals(scores) ==
    {sig \in DOMAIN scores :
        \A other \in DOMAIN scores : RLe(scores[other], scores[sig])}

\* C12: make_decision returns HOLD with confidence 0.5 whenever no source
\* voted or the highest accumulated score is shared by two or more directions
C12_TieYieldsHold ==
    Decided =>
        ((le_out.voters = <<>>
          \/ Cardinality(TopSignals(le_out.signal_scores)) >= 2)
         => (le_out.decision = "HOLD" /\ le_out.confidence = <<1, 2>>))

\* C13: a source that could not evaluate (no indicators, empty or too short
\* price history, missing 24h statistics) is not among the sources whose vote
\* make_decision weighs
C13_UnevaluatedSourceCastsNoVote ==
    DecidedInCycle =>
        /\ le_in.indicators.empty
            => \A j \in 1..Len(le_out.voters) : le_out.voters[j] # "technical"
        /\ le_in.market_data.history \in {"empty", "short"}
            => \A j \in 1..Len(le_out.voters) : le_out.voters[j] # "trend"
        /\ le_in.market_data.stats = "missing"
            => \A j \in 1..Len(le_out.voters) : le_out.voters[j] # "liquidity"

\* C14: for every regime, with regime adaptation on or off, and every
\* non-empty set of sources that voted, the normalized weights applied to
\* the votes sum to 1
C14_NormalizedWeightsSumToOne ==
    (Decided /\ le_out.voters # <<>>)
        => RSum(le_out.normalized_weights) = R(1)

\* a decision without the ML source, weights adapted to a bearish regime
C14_Witness ==
    /\ Decided
    /\ le_adapt
    /\ le_in.regime = [trend |-> "BEARISH", vol |-> "HIGH"]
    /\ le_out.voters = <<"technical", "liquidity">>
    /\ le_out.normalized_weights # <<>>

\* C15: the confidence of the decision lies in [0, 1] for every vote set
\* and regime, after the regime's confidence modifier
C15_ConfidenceInUnitInterval ==
    Decided => (RLe(Zero, le_out.confidence) /\ RLe(le_out.confidence, R(1)))

\* a unanimous BUY at confidence 1 in a low-volatility regime: the x1.1
\* modifier would give 1.1
C15_Witness ==
    /\ Decided
    /\ le_adapt
    /\ le_in.regime.vol = "LOW"
    /\ le_out.decision = "BUY"
    /\ le_out.signal_scores.BUY = R(1)
    /\ le_out.confidence = R(1)

\* ------------------------------------------------------------------------
\* Properties of the position exits
\* ------------------------------------------------------------------------
\* the exits the last check_stop_loss_take_profit call reported for a position
ExitsFor(order_id, reason) ==
    {j \in 1..Len(rk_call.positions_to_close) :
        /\ rk_call.positions_to_close[j].order_id = order_id
        /\ rk_call.positions_to_close[j].reason = reason}

\* C16: check_stop_loss_take_profit reports for a long position STOP_LOSS
\* iff price <= its stop-loss price and TAKE_PROFIT iff price >= its
\* take-profit price, for a short position STOP_LOSS iff price >= its
\* stop-loss price and TAKE_PROFIT iff price <= its take-profit price, and at
\* most one exit per position
C16_ExitsMatchStopAndTarget ==
    rk_call.op = "check_stop_loss_take_profit" =>
        \A j \in 1..Len(rk_active_positions) :
            LET position == rk_active_positions[j]
                price == rk_call.current_price
                stops == ExitsFor(position.order_id, "STOP_LOSS")
                targets == ExitsFor(position.order_id, "TAKE_PROFIT")
            IN  /\ Cardinality(stops) + Cardinality(targets) <= 1
                /\ position.side = "BUY" =>
                    /\ (stops # {}) <=> RLe(price, position.stop_loss)
                    /\ (targets # {}) <=> RLe(position.take_profit, price)
                /\ position.side = "SELL" =>
                    /\ (stops # {}) <=> RLe(position.stop_loss, price)
                    /\ (targets # {}) <=> RLe(price, position.take_profit)

\* a check at the short position's stop price (102) with a long and a short
\* position open: the short one exits, the long one does not
C16_Witness ==
    /\ rk_call.op = "check_stop_loss_take_profit"
    /\ rk_call.current_price = R(102)
    /\ Len(rk_active_positions) = 2
    /\ \E j \in 1..2 : rk_active_positions[j].side = "BUY"
    /\ Len(rk_call.positions_to_close) = 1
    /\ rk_call.positions_to_close[1].reason = "STOP_LOSS"

\* ------------------------------------------------------------------------
\* Properties of the position sizing
\* ------------------------------------------------------------------------
KellyDone == sz_pc = "done" /\ sz_out.op = "_calculate_kelly_criterion"
SizeDone == sz_pc = "done" /\ sz_out.op = "calculate_position_size"

\* C17: the Kelly fraction lies in [0, 0.25] for every input with
\* avg_loss # 0, avg_win = 0 and win rates of 0 and 100 percent included,
\* and is exactly 0.5 when avg_loss = 0
C17_KellyFractionClamped ==
    KellyDone =>
        IF sz_in.avg_loss = Zero THEN sz_out.kelly_fraction = <<1, 2>>
        ELSE /\ RLe(Zero, sz_out.kelly_fraction)
             /\ RLe(sz_out.kelly_fraction, <<1, 4>>)

\* C18: with avg_loss = 0 and a win rate and an average win given, the size
\* before clamping is base size x 0.5 x volatility factor x min(confidence, 1)
C18_ZeroLossSizedWithHalfKelly ==
    (SizeDone /\ sz_in.avg_loss = Zero /\ sz_in.win_rate # 0
     /\ sz_in.avg_win # Zero)
        => sz_out.adjusted_size =
               RMul(RMul(RMul(BASE_POSITION_SIZE, <<1, 2>>),
                         sz_out.volatility_factor),
                    RMin(sz_in.confidence, R(1)))

\* C19: the quantity returned is at least the minimum trade size, and its
\* value at the current price is at most the caller's balance times the
\* maximum position size fraction
C19_SizeWithinMinimumAndCap ==
    SizeDone =>
        /\ RLe(QUANTITY, sz_out.final_size)
        /\ RLe(RMul(sz_out.final_size, sz_in.current_price),
               RMul(sz_in.available_balance, MAX_POSITION_SIZE))

\* ------------------------------------------------------------------------
\* Properties of two backtest runs
\* ------------------------------------------------------------------------
AgreeUpTo(timestamp) ==
    UpTo(rp_all_data["a"], timestamp) = UpTo(rp_all_data["b"], timestamp)

\* C20: two backtest runs whose data agree on every bar up to the
\* timestamp being processed make the same decision and ask for the same
\* trade at that timestamp, whatever the later bars are.
C20_NoLookahead ==
    (rp_i >= 1 /\ AgreeUpTo(rp_i)) => rp_out["a"] = rp_out["b"]

\* ------------------------------------------------------------------------
\* Properties of two engines run over the same data
\* ------------------------------------------------------------------------
BothRan == tw_eng["a"].pc = "done" /\ tw_eng["b"].pc = "done"

SameDateRange ==
    \/ tw_args.start_date # NoDate /\ tw_args.end_date # NoDate
    \/ tw_now["a"] = tw_now["b"]

C22_DrawdownBoundedPeakMonotone ==
    dd_out.observed =>
        /\ RLe(Zero, dd_out.drawdown)
        /\ RLe(dd_out.drawdown, R(1))
        /\ RLe(dd_out.previous_peak, dd_out.peak)

\* ------------------------------------------------------------------------
\* Properties of the control flow of run_backtest
\* ------------------------------------------------------------------------
\* C23: whenever run_backtest has ended, it has returned (not raised)
\* after computing the metrics record and emitting the report: also when
\* the fetch failed for a symbol, when no symbol has data and when
\* timestamps were skipped.
C23_EndsWithMetricsAndReport ==
    fr_pc \in {"returned", "raised"} =>
        (fr_pc = "returned" /\ fr_metrics /\ fr_report)

\* ------------------------------------------------------------------------
\* Properties of the live engine's error handling
\* ------------------------------------------------------------------------

\* C24: whenever the consecutive-error count has reached
\* max_consecutive_errors, the emergency stop is set, whichever of the three
\* paths (balance check, trading cycle, main loop) recorded the errors.
C24_ErrorsAtThresholdImplyStop ==
    sv_consecutive_errors >= max_consecutive_errors => sv_emergency_stop

\* the count has reached the threshold through the main loop's handler
C24_Witness ==
    /\ sv_consecutive_errors >= max_consecutive_errors
    /\ sv_emergency_stop
    /\ sv_last.op = "main_loop_error"

\* C25: while the emergency stop is set no order is submitted, and the flag
\* is cleared only by a recovery attempt whose network and API checks pass.
C25_NoOrdersWhileStopped ==
    /\ sv_last.stop_before => sv_last.orders = 0
    /\ sv_last.under_stop = 0
    /\ (sv_last.stop_before /\ ~sv_emergency_stop)
        => (sv_last.op = "attempt_recovery" /\ sv_last.outcome = "recovered")

\* a trading cycle was called while the engine was stopped
C25_Witness ==
    /\ sv_last.op = "execute_trading_cycle"
    /\ sv_last.stop_before
    /\ sv_emergency_stop

\* C29: every recovery attempt that does not succeed increases
\* recovery_attempts, so at most max_recovery_attempts are made.
C29_FailedAttemptCounts ==
    (sv_last.op = "attempt_recovery" /\ sv_last.outcome # "recovered")
        => sv_recovery_attempts = sv_last.attempts_before + 1

\* C28: the live daily trade count never exceeds MAX_DAILY_TRADES, exits
\* placed by manage_positions included.
C28_DailyTradesWithinLimit == te_daily_trades <= MAX_DAILY_TRADES

\* ------------------------------------------------------------------------
\* Order of processing and cash of the backtest
\* ------------------------------------------------------------------------
ExitCheckOf(symbol, price) ==
    CheckStopLossTakeProfit(Ledger, symbol, price, bt_i)

ProcessedInOrder ==
    bt_pc = "loop" =>
        /\ bt_i' > bt_i \/ (bt_i' = bt_i /\ bt_k' > bt_k)
        /\ bt_tick'.checked =>
            /\ bt_tick'.symbol = SUPPORTED_PAIRS[bt_k]
            /\ Len(trades') >= Len(ExitCheckOf(bt_tick'.symbol,
                                               bt_tick'.price).trades)
            /\ SubSeq(trades', 1,
                      Len(ExitCheckOf(bt_tick'.symbol, bt_tick'.price).trades))
                 = ExitCheckOf(bt_tick'.symbol, bt_tick'.price).trades

\* C26: the backtest goes through the timestamps in ascending order and,
\* within a timestamp, through the symbols in the configured order; the
\* exit check of a symbol and the close it implies come before the trade
\* its signal asks for.
C26_ExitCheckBeforeSignal == [][ProcessedInOrder]_vars

\* a pass in which an exit trigger fired and the signal traded as well
C26_Witness ==
    /\ bt_tick.checked
    /\ bt_tick.trigger # "none"
    /\ bt_tick.signal # "none"
    /\ bt_tick.ok

\* C27: from a non-negative initial balance, with positive prices and
\* non-negative requested amounts, the cash of the backtest is never negative,
\* whatever buys, averaging adds, sells and trigger closes were made.
C27_CashNeverNegative == RLe(Zero, current_balance)

\* cash was spent and a trigger close has just been made
C27_Witness ==
    /\ bt_tick.checked
    /\ bt_tick.trigger # "none"
    /\ Len(trades) >= 2
    /\ \E j \in 1..Len(trades) : trades[j].side = "buy"
    /\ \E j \in 1..Len(trades) : trades[j].side = "sell"
    /\ RLt(current_balance, initial_balance)

\* ------------------------------------------------------------------------
\* Daily limits of the RiskModule
\* ------------------------------------------------------------------------
\* can_trade, called now with any signal, rejects for a daily limit
LimitRejectsNow ==
    CanTradeResult(DailyTradesAfterReset, DailyPnlAfterReset, 90).reason
        \in {"Daily trade limit reached", "Daily loss limit reached"}

RejectionStays ==
    (LimitRejectsNow /\ rk_today' = rk_today) => LimitRejectsNow'

\* C30: once can_trade rejects for the daily trade limit or the daily loss
\* limit, it rejects for the rest of that calendar day, whatever
\* open_position and close_position calls are made in between.
C30_LimitRejectionSticky == [][RejectionStays]_vars

====
